---- MODULE Spec2Model ----
(***************************************************************************)
(* A model of the key-value datastore plugin of clixon                     *)
(* (datastore/keyvalue/clixon_keyvalue.c): handles, the database file      *)
(* resolver, the write engine (kv_put/put), the read engine (kv_get/get)   *)
(* and the process-wide lock registry.                                     *)
(*                                                                         *)
(* C strings are sequences of one-character strings, so that keys can be   *)
(* built, split, percent-encoded and pattern-matched as the code does.     *)
(* Database names, option names and directory names are only compared by   *)
(* the code and are plain strings here.                                    *)
(***************************************************************************)
EXTENDS Integers, Sequences, FiniteSets, TLC

VARIABLES
    handles,            \* xmldb_handle -> struct kv_handle (or freed memory)
    store,              \* file name -> content of the store file, or NoFile
    running_locked,     \* static int _running_locked
    candidate_locked,   \* static int _candidate_locked
    startup_locked,     \* static int _startup_locked
    last                \* the last API call: its arguments, result and trace

vars == <<handles, store, running_locked, candidate_locked, startup_locked, last>>

lockvars == <<running_locked, candidate_locked, startup_locked>>

-----------------------------------------------------------------------------
(* Bounds of the model *)

\* Session ids (pids) used as lock owners are 0..MaxPid.
MaxPid == 2

\* A kv_put call is observed on every store that at most PriorPuts earlier
\* kv_put calls on the created, empty store produce.
PriorPuts == 1

-----------------------------------------------------------------------------
(* Inputs *)

Handles == {"h1", "h2"}

Pids == 0..MaxPid

\* The four names kv_db2file accepts, and two it does not.
DbNames == {"running", "candidate", "startup", "tmp"}

DbArgs == DbNames \cup {"nosuch"}

LockNames == {"running", "candidate", "startup"}

\* The null pointer of a handle field (a directory or schema name otherwise).
NULL == "NULL"

\* The null pointer where a C string is expected: no body, no value.
NULLSTR == <<"NULL">>

-----------------------------------------------------------------------------
(* Handles *)

\* kv_connect: memset(kh, 0, size) and the magic set.
kv_connect_handle == [magic |-> TRUE, kh_dbdir |-> NULL, kh_yangspec |-> NULL]

\* kv_handle_check: 0 when the magic number is there.
kv_handle_check(kh) == IF kh.magic THEN 0 ELSE -1

\* What a handle points to after free(kh): memory that is no handle any more
\* and whose content, the magic number included, is indeterminate.
FreedHandle == [magic |-> FALSE, kh_dbdir |-> NULL, kh_yangspec |-> NULL]

\* The outcomes of kv_disconnect on a handle that was freed: the assert of
\* the handle macro or the allocator ends the process on the stale magic
\* number or the second free, or the read and the two free calls pass
\* unnoticed and 0 is returned.
DanglingOutcomes == {"abort", "unnoticed"}

\* kv_disconnect: the handle macro checks the magic number, then kh_dbdir and
\* kh are freed and 0 is returned.
kv_disconnect(kh, ub) ==
    IF kv_handle_check(kh) = 0
    THEN [retval |-> 0, crashed |-> FALSE, kh |-> FreedHandle]
    ELSE IF ub = "abort"
    THEN [retval |-> -1, crashed |-> TRUE, kh |-> kh]
    ELSE [retval |-> 0, crashed |-> FALSE, kh |-> kh]

\* kv_getopt: the value of option yangspec or dbdir, -1 for another name.
kv_getopt(kh, optname) ==
    IF optname = "yangspec" THEN [retval |-> 0, value |-> kh.kh_yangspec]
    ELSE IF optname = "dbdir" THEN [retval |-> 0, value |-> kh.kh_dbdir]
    ELSE [retval |-> -1, value |-> NULL]

\* kv_setopt: option yangspec is set to the value, option dbdir to a copy of
\* the value unless the value is NULL; -1 for another name.
kv_setopt(kh, optname, value) ==
    IF optname = "yangspec" THEN [retval |-> 0, kh |-> [kh EXCEPT !.kh_yangspec = value]]
    ELSE IF optname = "dbdir"
    THEN [retval |-> 0, kh |-> IF value # NULL THEN [kh EXCEPT !.kh_dbdir = value] ELSE kh]
    ELSE [retval |-> -1, kh |-> kh]

-----------------------------------------------------------------------------
(* Strings and the percent codec (uri_percent_encode, uri_percent_decode)   *)

RECURSIVE Concat(_)
\* The concatenation of a sequence of strings.
Concat(ss) == IF ss = <<>> THEN <<>> ELSE Head(ss) \o Concat(Tail(ss))

\* An escaping that leaves the escape character itself as it is.
PercentCode_percentKept ==
    [c \in {"/", "=", ",", "(", ")"} |->
        CASE c = "/" -> <<"2", "F">>
          [] c = "=" -> <<"3", "D">>
          [] c = "," -> <<"2", "C">>
          [] c = "(" -> <<"2", "8">>
          [] c = ")" -> <<"2", "9">>]

\* The characters uri_percent_encode escapes, each with its two hex digits:
\* every character outside the unreserved set (letters, digits, - . _ ~).
PercentCode ==
    [c \in {"/", "=", ",", "%", "(", ")"} |->
        CASE c = "/" -> <<"2", "F">>
          [] c = "=" -> <<"3", "D">>
          [] c = "," -> <<"2", "C">>
          [] c = "%" -> <<"2", "5">>
          [] c = "(" -> <<"2", "8">>
          [] c = ")" -> <<"2", "9">>]

RECURSIVE uri_percent_encode(_)
\* uri_percent_encode: an escaped character becomes % and its two hex digits,
\* an unreserved character stays as it is.
uri_percent_encode(str) ==
    IF str = <<>> THEN <<>>
    ELSE (IF Head(str) \in DOMAIN PercentCode
          THEN <<"%">> \o PercentCode[Head(str)]
          ELSE <<Head(str)>>) \o uri_percent_encode(Tail(str))

\* The character two hex digits stand for, NULLSTR when they are no hex code
\* of the alphabet.
PercentChar(h1, h2) ==
    LET hit == {c \in DOMAIN PercentCode : PercentCode[c] = <<h1, h2>>}
    IN  IF hit = {} THEN NULLSTR ELSE <<CHOOSE c \in hit : TRUE>>

RECURSIVE uri_percent_decode(_)
\* uri_percent_decode: % followed by two hex digits becomes the character they
\* encode; every other character is copied.
uri_percent_decode(enc) ==
    IF enc = <<>> THEN <<>>
    ELSE IF /\ Head(enc) = "%"
            /\ Len(enc) > 2
            /\ PercentChar(enc[2], enc[3]) # NULLSTR
         THEN PercentChar(enc[2], enc[3]) \o uri_percent_decode(SubSeq(enc, 4, Len(enc)))
         ELSE <<Head(enc)>> \o uri_percent_decode(Tail(enc))

-----------------------------------------------------------------------------
(* The schema (yang_spec, yang_stmt)                                        *)

YangStmt(name, keyword, cvec, sub) ==
    [ys_argument |-> name, ys_keyword |-> keyword, ys_cvec |-> cvec, sub |-> sub,
     ys_default |-> <<"NULL">>]

Leaf(name) == YangStmt(name, "Y_LEAF", <<>>, <<>>)

\* A leaf with a default value.
LeafDefault(name, dflt) == [Leaf(name) EXCEPT !.ys_default = dflt]

\* No yang statement: what the find functions return when nothing matches.
YNULL == YangStmt(<<>>, "NULL", <<>>, <<>>)

\* The schema the handles share:
\*   container c { leaf x; container d { leaf y; leaf w { default "a"; } }
\*                 list e { key "n"; leaf n; leaf q; } }
\*   list s { key "n"; leaf n; leaf p; }
\*   list m { key "j k"; leaf j; leaf k; }
\*   leaf-list l;
\*   list u { leaf v; }            (a list without key statement)
YangSpec ==
    YangStmt(<<>>, "Y_SPEC", <<>>,
        << YangStmt(<<"c">>, "Y_CONTAINER", <<>>,
               << Leaf(<<"x">>),
                  YangStmt(<<"d">>, "Y_CONTAINER", <<>>,
                      << Leaf(<<"y">>), LeafDefault(<<"w">>, <<"a">>) >>),
                  YangStmt(<<"e">>, "Y_LIST", << <<"n">> >>,
                      << Leaf(<<"n">>), Leaf(<<"q">>) >>) >>),
           YangStmt(<<"s">>, "Y_LIST", << <<"n">> >>,
               << Leaf(<<"n">>), Leaf(<<"p">>) >>),
           YangStmt(<<"m">>, "Y_LIST", << <<"j">>, <<"k">> >>,
               << Leaf(<<"j">>), Leaf(<<"k">>) >>),
           YangStmt(<<"l">>, "Y_LEAF_LIST", <<>>, <<>>),
           YangStmt(<<"u">>, "Y_LIST", <<>>, << Leaf(<<"v">>) >>) >>)

\* yang_find_datanode / yang_find_topnode: the first data node of that name
\* among the statements below yn, YNULL when there is none.
yang_find_datanode(yn, name) ==
    LET hit == {i \in 1..Len(yn.sub) : yn.sub[i].ys_argument = name}
    IN  IF hit = {} THEN YNULL
        ELSE yn.sub[CHOOSE i \in hit : \A j \in hit : i <= j]

yang_find_topnode(ysp, name) == yang_find_datanode(ysp, name)

-----------------------------------------------------------------------------
(* XML trees (cxobj)                                                        *)

\* An element: its name, its body text (NULLSTR: none), the value of its
\* "operation" attribute (NULLSTR: none) and its child elements in order.
Xml(name, body, op, ch) == [name |-> name, body |-> body, op |-> op, ch |-> ch]

xml_name(x) == x.name

xml_body(x) == x.body

\* xml_find: the first child of that name, as its index, 0 when there is none.
xml_find(xt, name) ==
    LET hit == {i \in 1..Len(xt.ch) : xt.ch[i].name = name}
    IN  IF hit = {} THEN 0 ELSE CHOOSE i \in hit : \A j \in hit : i <= j

\* enum operation_type.
Operations == {"OP_MERGE", "OP_REPLACE", "OP_CREATE", "OP_DELETE", "OP_REMOVE", "OP_NONE"}

\* xml_operation: the operation an attribute value names, "NULL" when it names none.
xml_operation(opstr) ==
    CASE opstr = <<"merge">> -> "OP_MERGE"
      [] opstr = <<"replace">> -> "OP_REPLACE"
      [] opstr = <<"create">> -> "OP_CREATE"
      [] opstr = <<"delete">> -> "OP_DELETE"
      [] opstr = <<"remove">> -> "OP_REMOVE"
      [] opstr = <<"none">> -> "OP_NONE"
      [] OTHER -> "NULL"

-----------------------------------------------------------------------------
(* The store engine (clixon_qdb: db_init, db_delete, db_set, db_del, ...)   *)

\* A store file: whether it exists, and its (key, value) pairs, one per key.
NoFile == [exists |-> FALSE, pairs |-> {}]

EmptyFile == [exists |-> TRUE, pairs |-> {}]

\* db_init: creates the file when it is missing and leaves an existing one.
db_init(f) == [rc |-> 0, f |-> [f EXCEPT !.exists = TRUE]]

\* db_delete: removes the file when it exists.
db_delete(f) == [rc |-> 0, f |-> NoFile]

\* db_exists: 1 when the key is stored, 0 when not, -1 when the file cannot be opened.
db_exists(f, key) ==
    IF ~f.exists THEN -1
    ELSE IF \E e \in f.pairs : e[1] = key THEN 1 ELSE 0

\* db_set: stores value under key, replacing the value it had.
db_set(f, key, value) ==
    IF ~f.exists THEN [rc |-> -1, f |-> f]
    ELSE [rc |-> 0,
          f |-> [f EXCEPT !.pairs = {e \in @ : e[1] # key} \cup {<<key, value>>}]]

\* db_del: removes the key when it is stored.
db_del(f, key) ==
    IF ~f.exists THEN [rc |-> -1, f |-> f]
    ELSE [rc |-> 0, f |-> [f EXCEPT !.pairs = {e \in @ : e[1] # key}]]

\* One regular-expression atom against one character: "." matches any.
RxAtom(a, c) == a = "." \/ a = c

RECURSIVE RxHere(_, _)
\* Whether the pattern matches at the start of s: literals, ".", a starred
\* atom and a final "$" (the syntax the patterns of this program use).
RxHere(rx, s) ==
    IF rx = <<>> THEN TRUE
    ELSE IF rx = <<"$">> THEN s = <<>>
    ELSE IF Len(rx) >= 2 /\ rx[2] = "*"
         THEN \E k \in 0..Len(s) :
                  /\ \A i \in 1..k : RxAtom(rx[1], s[i])
                  /\ RxHere(SubSeq(rx, 3, Len(rx)), SubSeq(s, k + 1, Len(s)))
    ELSE /\ s # <<>>
         /\ RxAtom(rx[1], s[1])
         /\ RxHere(Tail(rx), Tail(s))

\* regexec: anchored by a leading "^", otherwise a match anywhere in s.
RxMatch(rx, s) ==
    IF rx # <<>> /\ rx[1] = "^" THEN RxHere(Tail(rx), s)
    ELSE \E i \in 0..Len(s) : RxHere(rx, SubSeq(s, i + 1, Len(s)))

\* db_regexp: the pairs whose key matches the pattern (in no particular order);
\* -1 when the file cannot be opened.
db_regexp(f, regexp) ==
    IF ~f.exists THEN [rc |-> -1, pairs |-> {}]
    ELSE [rc |-> 0, pairs |-> {e \in f.pairs : RxMatch(regexp, e[1])}]

-----------------------------------------------------------------------------
(* Database file resolver                                                   *)

\* A kv_db2file without the test of the name.
kv_db2file_anyName(kh, db) ==
    IF kh.kh_dbdir = NULL THEN [retval |-> -1, err |-> "dbdir", filename |-> <<>>]
    ELSE [retval |-> 0, err |-> "", filename |-> <<kh.kh_dbdir, "/", db, "_db">>]

\* kv_db2file: fails when the handle has no dbdir or the name is none of the
\* four; the file name is "<dbdir>/<db>_db".
kv_db2file(kh, db) ==
    IF kh.kh_dbdir = NULL THEN [retval |-> -1, err |-> "dbdir", filename |-> <<>>]
    ELSE IF db # "running" /\ db # "candidate" /\ db # "startup" /\ db # "tmp"
         THEN [retval |-> -1, err |-> "nodb", filename |-> <<>>]
    ELSE [retval |-> 0, err |-> "", filename |-> <<kh.kh_dbdir, "/", db, "_db">>]

-----------------------------------------------------------------------------
(* Write engine: append_listkeys, put, kv_put                               *)

\* What the "%s" of uri_percent_encode(&bodyenc, "%s", body) makes of a body
\* that is NULL (an element without text) when the process survives it; the
\* other outcome, the end of the process, is the action PutCrash.
PrintfNull == <<"(", "n", "u", "l", "l", ")">>

\* The text "%s" stands for.
FormatS(body) == IF body = NULLSTR THEN PrintfNull ELSE body

RECURSIVE append_listkeys_from(_, _, _)
\* The loop of append_listkeys from the i-th key name on: "=" before the first
\* value and "," before each later one, every value percent-encoded; -1 when
\* the list node has no child named as a key.
append_listkeys_from(xt, cvk, i) ==
    IF i > Len(cvk) THEN [retval |-> 0, ckey |-> <<>>]
    ELSE LET xkey == xml_find(xt, cvk[i])
         IN  IF xkey = 0 THEN [retval |-> -1, ckey |-> <<>>]
             ELSE LET rest == append_listkeys_from(xt, cvk, i + 1)
                  IN  IF rest.retval < 0 THEN rest
                      ELSE [retval |-> 0,
                            ckey |-> (IF i = 1 THEN <<"=">> ELSE <<",">>)
                                     \o uri_percent_encode(FormatS(xml_body(xt.ch[xkey])))
                                     \o rest.ckey]

\* An append_listkeys that takes the key values in the order in which the key
\* children stand in the entry.
append_listkeys_childOrder(xt, ys) ==
    append_listkeys_from(xt,
        [i \in 1..Len(SelectSeq(xt.ch, LAMBDA e : \E j \in 1..Len(ys.ys_cvec) :
                                                   ys.ys_cvec[j] = e.name)) |->
            SelectSeq(xt.ch, LAMBDA e : \E j \in 1..Len(ys.ys_cvec) :
                                          ys.ys_cvec[j] = e.name)[i].name],
        1)

\* append_listkeys: the key values of a list node in the order of ys_cvec.
append_listkeys(xt, ys) == append_listkeys_from(xt, ys.ys_cvec, 1)

\* The pattern put hands to db_regexp: cprintf(cbrx, "^%s.*$", xk).
RemovePattern(xk) == <<"^">> \o xk \o <<".", "*", "$">>

put_ok(f2) == [err |-> "", f |-> f2, skip |-> FALSE]

put_fail(f, e) == [err |-> e, f |-> f, skip |-> TRUE]

\* The db_set of OP_MERGE and OP_REPLACE (and of OP_CREATE, which falls
\* through to it), r being what db_set returned.
put_set(f, r) == IF r.rc < 0 THEN put_fail(f, "storage") ELSE put_ok(r.f)

\* An OP_REMOVE on a list or container that goes on to the children after
\* the pairs are deleted.
put_remove_pairs_descend(f, r) ==
    IF r.rc < 0 THEN put_fail(f, "storage")
    ELSE [err |-> "", f |-> [f EXCEPT !.pairs = @ \ r.pairs], skip |-> FALSE]

\* The pairs of OP_REMOVE on a list or container that db_regexp returned in
\* r are deleted, and put returns without visiting the children.
put_remove_pairs(f, r) ==
    IF r.rc < 0 THEN put_fail(f, "storage")
    ELSE [err |-> "", f |-> [f EXCEPT !.pairs = @ \ r.pairs], skip |-> TRUE]

\* OP_REMOVE (and OP_DELETE, which falls through to it): a list or container
\* loses every pair whose key matches the pattern, any other node its own key.
put_remove(f, xk, keyword) ==
    IF keyword \in {"Y_LIST", "Y_CONTAINER"}
    THEN put_remove_pairs(f, db_regexp(f, RemovePattern(xk)))
    ELSE put_set(f, db_del(f, xk))

\* The switch without the existence check of OP_CREATE.
put_switch_createUnchecked(f, xk, body, op, keyword) ==
    CASE op \in {"OP_CREATE", "OP_MERGE", "OP_REPLACE"} -> put_set(f, db_set(f, xk, body))
      [] op = "OP_DELETE" ->
             IF db_exists(f, xk) < 0 THEN put_fail(f, "storage")
             ELSE IF db_exists(f, xk) = 0 THEN put_fail(f, "notexists")
             ELSE put_remove(f, xk, keyword)
      [] op = "OP_REMOVE" -> put_remove(f, xk, keyword)
      [] op = "OP_NONE" -> put_ok(f)

\* The switch with OP_NONE writing the node like OP_MERGE.
put_switch_noneSets(f, xk, body, op, keyword) ==
    CASE op = "OP_CREATE" ->
             IF db_exists(f, xk) < 0 THEN put_fail(f, "storage")
             ELSE IF db_exists(f, xk) = 1 THEN put_fail(f, "exists")
             ELSE put_set(f, db_set(f, xk, body))
      [] op \in {"OP_MERGE", "OP_REPLACE", "OP_NONE"} -> put_set(f, db_set(f, xk, body))
      [] op = "OP_DELETE" ->
             IF db_exists(f, xk) < 0 THEN put_fail(f, "storage")
             ELSE IF db_exists(f, xk) = 0 THEN put_fail(f, "notexists")
             ELSE put_remove(f, xk, keyword)
      [] op = "OP_REMOVE" -> put_remove(f, xk, keyword)

\* The store operations of one node under operation op (the switch of put):
\* the file afterwards, the error if any, and whether the children are skipped.
put_switch(f, xk, body, op, keyword) ==
    CASE op = "OP_CREATE" ->
             IF db_exists(f, xk) < 0 THEN put_fail(f, "storage")
             ELSE IF db_exists(f, xk) = 1 THEN put_fail(f, "exists")
             ELSE put_set(f, db_set(f, xk, body))
      [] op \in {"OP_MERGE", "OP_REPLACE"} -> put_set(f, db_set(f, xk, body))
      [] op = "OP_DELETE" ->
             IF db_exists(f, xk) < 0 THEN put_fail(f, "storage")
             ELSE IF db_exists(f, xk) = 0 THEN put_fail(f, "notexists")
             ELSE put_remove(f, xk, keyword)
      [] op = "OP_REMOVE" -> put_remove(f, xk, keyword)
      [] op = "OP_NONE" -> put_ok(f)

\* One line of the trace of a put call: the node visited (its place in the
\* input tree as child indices from the root), its key, the operation in
\* force, the pairs stored before the visit and after the node's own store
\* operations, and how the visit ended ("ok" or the error).
LogEntry(path, xk, op, keyword, body, pre, post, status) ==
    [path |-> path, xk |-> xk, op |-> op, kw |-> keyword, body |-> body,
     pre |-> pre, post |-> post, status |-> status]

RECURSIVE put(_, _, _, _, _, _)
RECURSIVE put_children(_, _, _, _, _, _, _)

\* A result of put with the trace lines log put in front of its own.
put_join(log, r) == [r EXCEPT !.log = log \o @]

\* After the i-th child was put with result r: stop on its error, otherwise go
\* on with the next child on the file it left.
put_next(xt, ys, op, xk, i, path, r) ==
    IF r.retval < 0 THEN r
    ELSE put_join(r.log, put_children(r.f, xt, ys, op, xk, i + 1, path))

\* The i-th child, y being its schema node: "No yang node found" when there
\* is none, otherwise the recursive put with this node's key as prefix.
put_child(f, xt, ys, op, xk, i, path, y) ==
    IF y = YNULL
    THEN [retval |-> -1, err |-> "noyang", f |-> f,
          log |-> << LogEntry(Append(path, i), xk \o <<"/">> \o xml_name(xt.ch[i]),
                              op, "NULL", xml_body(xt.ch[i]), f.pairs, f.pairs,
                              "noyang") >>]
    ELSE put_next(xt, ys, op, xk, i, path,
                  put(f, xt.ch[i], y, op, xk, Append(path, i)))

\* The child loop of put (and of kv_put, with the yang spec as ys and "" as
\* key): every child element in order, each looked up in the schema by name.
put_children(f, xt, ys, op, xk, i, path) ==
    IF i > Len(xt.ch) THEN [retval |-> 0, err |-> "", f |-> f, log |-> <<>>]
    ELSE put_child(f, xt, ys, op, xk, i, path,
                   yang_find_datanode(ys, xml_name(xt.ch[i])))

\* put after the switch, w being its outcome: an error ends the call, a
\* removed list or container ends it with 0, otherwise the children follow.
put_done(f, xt, ys, op, xk, path, w) ==
    IF w.err # ""
    THEN [retval |-> -1, err |-> w.err, f |-> f,
          log |-> << LogEntry(path, xk, op, ys.ys_keyword, xml_body(xt),
                              f.pairs, f.pairs, w.err) >>]
    ELSE put_join(<< LogEntry(path, xk, op, ys.ys_keyword, xml_body(xt),
                              f.pairs, w.f.pairs, "ok") >>,
                  IF w.skip
                  THEN [retval |-> 0, err |-> "", f |-> w.f, log |-> <<>>]
                  ELSE put_children(w.f, xt, ys, op, xk, 1, path))

\* A put that stores a list entry under the name alone when a key child is
\* missing.
put_keyed_missingKeyStored(f, xt, ys, op, xk0, path, keys) ==
    IF op = "NULL"
    THEN [retval |-> -1, err |-> "badop", f |-> f,
          log |-> << LogEntry(path, xk0 \o <<"/">> \o xml_name(xt), op,
                              ys.ys_keyword, xml_body(xt), f.pairs, f.pairs, "badop") >>]
    ELSE put_done(f, xt, ys, op, xk0 \o <<"/">> \o xml_name(xt) \o keys.ckey, path,
                  put_switch(f, xk0 \o <<"/">> \o xml_name(xt) \o keys.ckey,
                             xml_body(xt), op, ys.ys_keyword))

\* put once the operation op and the key suffix keys are known.
put_keyed(f, xt, ys, op, xk0, path, keys) ==
    IF op = "NULL" \/ keys.retval < 0
    THEN [retval |-> -1, err |-> IF op = "NULL" THEN "badop" ELSE "nokey", f |-> f,
          log |-> << LogEntry(path, xk0 \o <<"/">> \o xml_name(xt), op,
                              ys.ys_keyword, xml_body(xt), f.pairs, f.pairs,
                              IF op = "NULL" THEN "badop" ELSE "nokey") >>]
    ELSE put_done(f, xt, ys, op, xk0 \o <<"/">> \o xml_name(xt) \o keys.ckey, path,
                  put_switch(f, xk0 \o <<"/">> \o xml_name(xt) \o keys.ckey,
                             xml_body(xt), op, ys.ys_keyword))

\* put with the operation attribute of the node left unread.
put_ignoreAttribute(f, xt, ys, op, xk0, path) ==
    put_keyed(f, xt, ys, op, xk0, path,
              CASE ys.ys_keyword = "Y_LIST" -> append_listkeys(xt, ys)
                [] ys.ys_keyword = "Y_LEAF_LIST" ->
                       [retval |-> 0, ckey |-> <<"=">> \o uri_percent_encode(FormatS(xml_body(xt)))]
                [] OTHER -> [retval |-> 0, ckey |-> <<>>])

\* put: the operation attribute replaces the operation handed in, the key is
\* the prefix, "/", the name and the key values (list) or the value
\* (leaf-list); then the store operations of the node, then the children.
put(f, xt, ys, op, xk0, path) ==
    put_keyed(f, xt, ys,
              IF xt.op # NULLSTR THEN xml_operation(xt.op) ELSE op,
              xk0, path,
              CASE ys.ys_keyword = "Y_LIST" -> append_listkeys(xt, ys)
                [] ys.ys_keyword = "Y_LEAF_LIST" ->
                       [retval |-> 0, ckey |-> <<"=">> \o uri_percent_encode(FormatS(xml_body(xt)))]
                [] OTHER -> [retval |-> 0, ckey |-> <<>>])

\* A failed put gives the file back as it was found.
put_rollback(f0, r) == IF r.retval < 0 THEN [r EXCEPT !.f = f0] ELSE r

\* kv_put undoing the store operations of a put that failed.
kv_put_file_rollback(filename, f0, op, xt) ==
    put_rollback(f0, put_children(f0, xt, YangSpec, op, <<>>, 1, <<>>))
    @@ [filename |-> filename, changed |-> TRUE, wiped |-> f0]

\* kv_put once the file name is resolved: the wipe of OP_REPLACE, then the
\* top-level elements in order.
kv_put_file(filename, f0, op, xt) ==
    put_children(f0, xt, YangSpec, op, <<>>, 1, <<>>)
    @@ [filename |-> filename, changed |-> TRUE, wiped |-> f0]

\* kv_put without the wipe of OP_REPLACE.
kv_put_resolved_nowipe(kh, fs, db, op, xt, file) ==
    IF kh.kh_yangspec = NULL \/ file.retval < 0
    THEN [retval |-> -1,
          err |-> IF kh.kh_yangspec = NULL THEN "noyangspec" ELSE file.err,
          filename |-> file.filename, changed |-> FALSE,
          f |-> NoFile, wiped |-> NoFile, log |-> <<>>]
    ELSE kv_put_file(file.filename, fs[file.filename], op, xt)

\* kv_put on the handle kh and the files fs: the result, the name of the file
\* written and its content afterwards, the content after the wipe of
\* OP_REPLACE, and the trace of put.
kv_put_resolved(kh, fs, db, op, xt, file) ==
    IF kh.kh_yangspec = NULL \/ file.retval < 0
    THEN [retval |-> -1,
          err |-> IF kh.kh_yangspec = NULL THEN "noyangspec" ELSE file.err,
          filename |-> file.filename, changed |-> FALSE,
          f |-> NoFile, wiped |-> NoFile, log |-> <<>>]
    ELSE kv_put_file(file.filename,
                     IF op = "OP_REPLACE"
                     THEN db_init(db_delete(fs[file.filename]).f).f
                     ELSE fs[file.filename],
                     op, xt)

kv_put(kh, fs, db, op, xt) == kv_put_resolved(kh, fs, db, op, xt, kv_db2file(kh, db))

-----------------------------------------------------------------------------
(* Lock registry *)

\* The three static ints as one record, used for snapshots in last.
LockState ==
    [running |-> running_locked, candidate |-> candidate_locked,
     startup |-> startup_locked]

\* kv_islocked: the owner, or -1 for a name that is none of the three.
kv_islocked(xh, db) ==
    IF db = "running" THEN running_locked
    ELSE IF db = "candidate" THEN candidate_locked
    ELSE IF db = "startup" THEN startup_locked
    ELSE -1

\* A kv_lock that refuses to take over a lock another owner holds.
kv_lock_ifFree(xh, db, pid) ==
    /\ running_locked' =
           IF db = "running" /\ running_locked = 0 THEN pid ELSE running_locked
    /\ candidate_locked' =
           IF db = "candidate" /\ candidate_locked = 0 THEN pid ELSE candidate_locked
    /\ startup_locked' =
           IF db = "startup" /\ startup_locked = 0 THEN pid ELSE startup_locked
    /\ last' = [call |-> "kv_lock", xh |-> xh, db |-> db, pid |-> pid,
                pre |-> LockState,
                retval |-> IF db \in LockNames THEN 0 ELSE -1]
    /\ UNCHANGED <<handles, store>>

\* A kv_lock that lets an owner hold one lock only: it drops the owner's others.
kv_lock_exclusive(xh, db, pid) ==
    /\ running_locked' =
           IF db = "running" THEN pid
           ELSE IF db \in LockNames /\ running_locked = pid THEN 0
           ELSE running_locked
    /\ candidate_locked' =
           IF db = "candidate" THEN pid
           ELSE IF db \in LockNames /\ candidate_locked = pid THEN 0
           ELSE candidate_locked
    /\ startup_locked' =
           IF db = "startup" THEN pid
           ELSE IF db \in LockNames /\ startup_locked = pid THEN 0
           ELSE startup_locked
    /\ last' = [call |-> "kv_lock", xh |-> xh, db |-> db, pid |-> pid,
                pre |-> LockState,
                retval |-> IF db \in LockNames THEN 0 ELSE -1]
    /\ UNCHANGED <<handles, store>>

\* A kv_lock that takes every name kv_db2file knows, tmp included.
kv_lock_anyDatabase(xh, db, pid) ==
    /\ running_locked' = IF db = "running" THEN pid ELSE running_locked
    /\ candidate_locked' = IF db = "candidate" THEN pid ELSE candidate_locked
    /\ startup_locked' = IF db = "startup" THEN pid ELSE startup_locked
    /\ last' = [call |-> "kv_lock", xh |-> xh, db |-> db, pid |-> pid,
                pre |-> LockState,
                retval |-> IF db \in DbNames THEN 0 ELSE -1]
    /\ UNCHANGED <<handles, store>>

\* kv_lock: sets the entry of db to pid, whatever it held; the handle is unused.
kv_lock(xh, db, pid) ==
    /\ running_locked' = IF db = "running" THEN pid ELSE running_locked
    /\ candidate_locked' = IF db = "candidate" THEN pid ELSE candidate_locked
    /\ startup_locked' = IF db = "startup" THEN pid ELSE startup_locked
    /\ last' = [call |-> "kv_lock", xh |-> xh, db |-> db, pid |-> pid,
                pre |-> LockState,
                retval |-> IF db \in LockNames THEN 0 ELSE -1]
    /\ UNCHANGED <<handles, store>>

\* kv_unlock: sets the entry of db to 0, whoever held it.
kv_unlock(xh, db) ==
    /\ running_locked' = IF db = "running" THEN 0 ELSE running_locked
    /\ candidate_locked' = IF db = "candidate" THEN 0 ELSE candidate_locked
    /\ startup_locked' = IF db = "startup" THEN 0 ELSE startup_locked
    /\ last' = [call |-> "kv_unlock", xh |-> xh, db |-> db, pid |-> 0,
                pre |-> LockState,
                retval |-> IF db \in LockNames THEN 0 ELSE -1]
    /\ UNCHANGED <<handles, store>>

\* A kv_unlock_all written as an else-if chain: it stops at the first match.
kv_unlock_all_first(xh, pid) ==
    /\ running_locked' = IF running_locked = pid THEN 0 ELSE running_locked
    /\ candidate_locked' =
           IF running_locked # pid /\ candidate_locked = pid
           THEN 0 ELSE candidate_locked
    /\ startup_locked' =
           IF running_locked # pid /\ candidate_locked # pid /\ startup_locked = pid
           THEN 0 ELSE startup_locked
    /\ last' = [call |-> "kv_unlock_all", xh |-> xh, db |-> "", pid |-> pid,
                pre |-> LockState, retval |-> 0]
    /\ UNCHANGED <<handles, store>>

\* kv_unlock_all: three independent tests, then return 0.
kv_unlock_all(xh, pid) ==
    /\ running_locked' = IF running_locked = pid THEN 0 ELSE running_locked
    /\ candidate_locked' = IF candidate_locked = pid THEN 0 ELSE candidate_locked
    /\ startup_locked' = IF startup_locked = pid THEN 0 ELSE startup_locked
    /\ last' = [call |-> "kv_unlock_all", xh |-> xh, db |-> "", pid |-> pid,
                pre |-> LockState, retval |-> 0]
    /\ UNCHANGED <<handles, store>>

\* The kv_islocked call: reads the registry and returns.
IsLocked(xh, db) ==
    /\ last' = [call |-> "kv_islocked", xh |-> xh, db |-> db, pid |-> 0,
                pre |-> LockState, retval |-> kv_islocked(xh, db)]
    /\ UNCHANGED <<handles, store, lockvars>>

-----------------------------------------------------------------------------
(* The read engine (get, kv_get)                                            *)

RECURSIVE IndexOf(_, _, _)
\* index(s, c) from position i on: where c first is in s, 0 when it is not.
IndexOf(s, c, i) ==
    IF i > Len(s) THEN 0 ELSE IF s[i] = c THEN i ELSE IndexOf(s, c, i + 1)

\* The part of s after position k.
After(s, k) == SubSeq(s, k + 1, Len(s))

RECURSIVE clicon_strsep_at(_, _, _)
\* clicon_strsep, k being where the delimiter first is.
clicon_strsep_at(s, c, k) ==
    IF k = 0 THEN <<s>>
    ELSE <<SubSeq(s, 1, k - 1)>>
         \o clicon_strsep_at(After(s, k), c, IndexOf(After(s, k), c, 1))

\* clicon_strsep: the tokens of s between the delimiters c, empty ones kept.
clicon_strsep(s, c) == clicon_strsep_at(s, c, IndexOf(s, c, 1))

\* The name of a key segment: what is before the first "=".
SegName(seg) ==
    IF IndexOf(seg, "=", 1) = 0 THEN seg ELSE SubSeq(seg, 1, IndexOf(seg, "=", 1) - 1)

\* restval of a key segment: what is after the first "=", NULLSTR without "=".
SegRest(seg) ==
    IF IndexOf(seg, "=", 1) = 0 THEN NULLSTR ELSE After(seg, IndexOf(seg, "=", 1))

\* xml_new_spec: element x with the new element c as its last child.
xml_new_spec(x, c) == [x EXCEPT !.ch = Append(@, c)]

RECURSIVE create_keyvalues(_, _, _)
\* create_keyvalues for the keys from the j-th on: a child with a body for each
\* key name, the body being the percent-decoded j-th value.
create_keyvalues(cvk, valvec, j) ==
    IF j > Len(cvk) \/ j > Len(valvec) THEN <<>>
    ELSE << Xml(cvk[j], uri_percent_decode(valvec[j]), NULLSTR, <<>>) >>
         \o create_keyvalues(cvk, valvec, j + 1)

\* xpath_first(x, "name[k1='v1'][k2='v2']..."): the first child of that name
\* that has, for each key, a child of the key's name with the decoded value as
\* body; as its index, 0 when there is none.
xpath_first(x, name, cvk, valvec) ==
    LET hit == {i \in 1..Len(x.ch) :
                   /\ x.ch[i].name = name
                   /\ \A j \in 1..Len(cvk) :
                          \E k \in 1..Len(x.ch[i].ch) :
                              /\ x.ch[i].ch[k].name = cvk[j]
                              /\ x.ch[i].ch[k].body = uri_percent_decode(valvec[j])}
    IN  IF hit = {} THEN 0 ELSE CHOOSE i \in hit : \A j \in hit : i <= j

\* The outcomes of the uri_percent_decode call of the leaf-list case, which
\* hands over &argdec (the address of an uninitialized pointer) as the string
\* to decode and restval as the place to store the result: the read of
\* indeterminate bytes, the write over the key buffer and the free of the
\* indeterminate argdec either end the process or pass unnoticed; argdec
\* then names no child, so a new element is made.
LeafListOutcomes == {"crash", "continue"}

RECURSIVE get_walk(_, _, _, _, _, _)

\* The walk of get returned r for child c of x: x with that child.
get_up(x, c, r) == [r EXCEPT !.x = [x EXCEPT !.ch[c] = r.x]]

\* x = xc; i++: the walk goes on in child c of x, whose yang node is y.
get_descend(x, c, y, vec, i, val, ub) ==
    get_up(x, c, get_walk(x.ch[c], y, vec, i + 1, val, ub))

get_fail(x, e) == [retval |-> -1, err |-> e, crashed |-> FALSE, x |-> x]

\* A get that fails on a list segment with the wrong number of key values.
get_list_countFails(x, y, vec, i, val, ub, name, valvec, c) ==
    IF Len(y.ys_cvec) # Len(valvec) THEN get_fail(x, "keycount")
    ELSE IF c = 0
    THEN get_descend(xml_new_spec(x, Xml(name, NULLSTR, NULLSTR,
                                         create_keyvalues(y.ys_cvec, valvec, 1))),
                     Len(x.ch) + 1, y, vec, i, val, ub)
    ELSE get_descend(x, c, y, vec, i, val, ub)

\* A list case that makes a new entry without its key children.
get_list_noKeyChildren(x, y, vec, i, val, ub, name, valvec, c) ==
    IF Len(y.ys_cvec) # Len(valvec)
    THEN [retval |-> 0, err |-> "", crashed |-> FALSE, x |-> x]
    ELSE IF c = 0
    THEN get_descend(xml_new_spec(x, Xml(name, NULLSTR, NULLSTR, <<>>)),
                     Len(x.ch) + 1, y, vec, i, val, ub)
    ELSE get_descend(x, c, y, vec, i, val, ub)

\* case Y_LIST once the key statement is found and the values of the segment
\* are split into valvec: they must be as many as the keys (otherwise get
\* returns 0 at once); the entry with these key values is looked up and made,
\* with its key children, when it is not there.
get_list(x, y, vec, i, val, ub, name, valvec, c) ==
    IF Len(y.ys_cvec) # Len(valvec)
    THEN [retval |-> 0, err |-> "", crashed |-> FALSE, x |-> x]
    ELSE IF c = 0
    THEN get_descend(xml_new_spec(x, Xml(name, NULLSTR, NULLSTR,
                                         create_keyvalues(y.ys_cvec, valvec, 1))),
                     Len(x.ch) + 1, y, vec, i, val, ub)
    ELSE get_descend(x, c, y, vec, i, val, ub)

\* case Y_LEAF, Y_CONTAINER, default: the child of that name, made when
\* xml_find (c) finds none.
get_default(x, y, vec, i, val, ub, name, c) ==
    IF c = 0
    THEN get_descend(xml_new_spec(x, Xml(name, NULLSTR, NULLSTR, <<>>)),
                     Len(x.ch) + 1, y, vec, i, val, ub)
    ELSE get_descend(x, c, y, vec, i, val, ub)

\* One segment of the key, y being the yang node found for its name.  In the
\* list case the key statement is looked up first, and get fails when the
\* list has none; then the values are split, and clicon_strsep fails on a
\* segment without "=" (restval is NULL), which put never writes for a list
\* with keys.
get_segment(x, y, vec, i, val, ub, name, restval) ==
    IF y = YNULL THEN get_fail(x, "noyang")
    ELSE CASE y.ys_keyword = "Y_LEAF_LIST" ->
                  IF ub = "crash"
                  THEN [retval |-> -1, err |-> "crash", crashed |-> TRUE, x |-> x]
                  ELSE get_descend(xml_new_spec(x, Xml(name, NULLSTR, NULLSTR, <<>>)),
                                   Len(x.ch) + 1, y, vec, i, val, ub)
           [] y.ys_keyword = "Y_LIST" ->
                  IF y.ys_cvec = <<>> THEN get_fail(x, "nokey")
                  ELSE IF restval = NULLSTR THEN get_fail(x, "strsep")
                  ELSE get_list(x, y, vec, i, val, ub, name,
                                clicon_strsep(restval, ","),
                                IF Len(y.ys_cvec) = Len(clicon_strsep(restval, ","))
                                THEN xpath_first(x, name, y.ys_cvec,
                                                 clicon_strsep(restval, ","))
                                ELSE 0)
           [] OTHER -> get_default(x, y, vec, i, val, ub, name, xml_find(x, name))

\* The loop of get over the segments vec[i..], x being the element reached and
\* ys its yang node; after the last segment the value becomes the body of the
\* element reached unless it has one.
get_walk(x, ys, vec, i, val, ub) ==
    IF i > Len(vec)
    THEN [retval |-> 0, err |-> "", crashed |-> FALSE,
          x |-> IF val # NULLSTR /\ xml_body(x) = NULLSTR
                THEN [x EXCEPT !.body = val] ELSE x]
    ELSE get_segment(x, yang_find_datanode(ys, SegName(vec[i])), vec, i, val, ub,
                     SegName(vec[i]), SegRest(vec[i]))

\* get: the nodes of key xk are found or made in the tree xt, the value val
\* becomes the body of the last one.
get(ys, xk, val, xt, ub) ==
    IF xk = <<>> \/ xk[1] # "/" THEN get_fail(xt, "invalidkey")
    ELSE IF Len(clicon_strsep(xk, "/")) < 2 THEN get_fail(xt, "malformedkey")
    ELSE get_walk(xt, ys, Tail(clicon_strsep(xk, "/")), 1, val, ub)

RECURSIVE Orders(_)
\* The orders in which the store can hand out the pairs S.
Orders(S) ==
    IF S = {} THEN {<<>>}
    ELSE UNION { { <<e>> \o o : o \in Orders(S \ {e}) } : e \in S }

RECURSIVE xpath_select(_, _, _, _)
\* The places below x (itself at place path) that the names from the i-th on
\* lead to, each name selecting the children of that name.
xpath_select(x, path, names, i) ==
    IF i > Len(names) THEN { path }
    ELSE UNION { xpath_select(x.ch[k], Append(path, k), names, i + 1) :
                     k \in {j \in 1..Len(x.ch) : x.ch[j].name = names[i]} }

\* The nodes an xpath selects in xt, as their places (child indices from the
\* root): "/" the root, "/name/name..." the elements the names lead to.
xpath_vec(xt, xpath) ==
    IF xpath = <<"/">> THEN { <<>> }
    ELSE IF xpath # <<>> /\ xpath[1] = "/"
    THEN xpath_select(xt, <<>>, Tail(clicon_strsep(xpath, "/")), 1)
    ELSE {}

\* Whether place p is at or above place q.
PathPrefix(p, q) == Len(p) <= Len(q) /\ SubSeq(q, 1, Len(p)) = p

RECURSIVE SelectKept(_, _, _, _)
RECURSIVE xml_tree_prune_flagged_sub(_, _, _)
\* The children of x from the i-th on that are marked or have a marked node
\* below them, each pruned in turn unless it is marked itself.
SelectKept(x, path, marked, i) ==
    IF i > Len(x.ch) THEN <<>>
    ELSE (IF Append(path, i) \in marked THEN << x.ch[i] >>
          ELSE IF \E m \in marked : PathPrefix(Append(path, i), m)
          THEN << xml_tree_prune_flagged_sub(x.ch[i], Append(path, i), marked) >>
          ELSE <<>>)
         \o SelectKept(x, path, marked, i + 1)

\* xml_tree_prune_flagged_sub: every unmarked subtree without a marked node
\* goes; marked subtrees stay whole.
xml_tree_prune_flagged_sub(x, path, marked) ==
    [x EXCEPT !.ch = SelectKept(x, path, marked, 1)]

RECURSIVE DefaultsFrom(_, _, _)
\* The default leaves of yang node y from its i-th statement on that x lacks.
DefaultsFrom(x, y, i) ==
    IF i > Len(y.sub) THEN <<>>
    ELSE (IF y.sub[i].ys_default # NULLSTR /\ xml_find(x, y.sub[i].ys_argument) = 0
          THEN << Xml(y.sub[i].ys_argument, y.sub[i].ys_default, NULLSTR, <<>>) >>
          ELSE <<>>)
         \o DefaultsFrom(x, y, i + 1)

RECURSIVE xml_default(_, _)
\* xml_default on x and every element below it: a leaf with a default value
\* in the schema is added where it is not set.
xml_default(x, y) ==
    [x EXCEPT !.ch =
        [i \in 1..Len(x.ch) |->
            xml_default(x.ch[i], yang_find_datanode(y, x.ch[i].name))]
        \o (IF y.ys_keyword \in {"Y_CONTAINER", "Y_LIST"}
            THEN DefaultsFrom(x, y, 1) ELSE <<>>)]

RECURSIVE OrderFrom(_, _, _)
\* The children of x in the order of the statements of y from the i-th on.
OrderFrom(ch, y, i) ==
    IF i > Len(y.sub) THEN <<>>
    ELSE SelectSeq(ch, LAMBDA c : c.name = y.sub[i].ys_argument)
         \o OrderFrom(ch, y, i + 1)

RECURSIVE xml_order(_, _)
\* xml_order on x and every element below it: the children in the order in
\* which the schema declares them.
xml_order(x, y) ==
    [x EXCEPT !.ch =
        OrderFrom([i \in 1..Len(x.ch) |->
                      xml_order(x.ch[i], yang_find_datanode(y, x.ch[i].name))],
                  y, 1)]

RECURSIVE xml_sanity(_, _)
\* xml_sanity on every element below x, whose yang node is y: each element
\* has a statement of the schema as its spec and is named in the argument of
\* that statement.  A key child of a list entry has the key statement of the
\* list as its spec (create_keyvalues), whose argument is the key names; every
\* other element has the node of its own name.
xml_sanity(x, y) ==
    \A i \in 1..Len(x.ch) :
        /\ yang_find_datanode(y, x.ch[i].name) # YNULL
        /\ \/ yang_find_datanode(y, x.ch[i].name).ys_argument = x.ch[i].name
           \/ /\ y.ys_keyword = "Y_LIST"
              /\ \E j \in 1..Len(y.ys_cvec) : y.ys_cvec[j] = x.ch[i].name
        /\ xml_sanity(x.ch[i], yang_find_datanode(y, x.ch[i].name))

\* The last step of kv_get on the ordered tree x: when xml_sanity fails
\* kv_get returns -1 and hands out no tree.
kv_get_sanity(r, x) ==
    IF xml_sanity(x, YangSpec) THEN [r EXCEPT !.x = x]
    ELSE get_fail(NULL, "sanity")

RECURSIVE kv_get_pairs(_, _, _, _, _)
\* The loop of kv_get over the pairs in the order the store hands them out,
\* r being the result so far.
kv_get_pairs(ys, pairs, i, r, ub) ==
    IF i > Len(pairs) \/ r.retval < 0 THEN r
    ELSE kv_get_pairs(ys, pairs, i + 1, get(ys, pairs[i][1], pairs[i][2], r.x, ub), ub)

\* A kv_get that marks the nodes of the xpath and prunes nothing.
kv_get_filter_unpruned(r, xpath) ==
    IF r.retval < 0 THEN [r EXCEPT !.x = NULL]
    ELSE kv_get_sanity(r, xml_order(xml_default(r.x, YangSpec), YangSpec))

\* kv_get after the tree is assembled: the nodes of the xpath are marked, the
\* rest is pruned unless the root is marked, then defaults, order and the
\* sanity pass.
kv_get_filter(r, xpath) ==
    IF r.retval < 0 THEN [r EXCEPT !.x = NULL]
    ELSE kv_get_sanity(r,
             xml_order(
                 xml_default(
                     IF <<>> \in xpath_vec(r.x, xpath) THEN r.x
                     ELSE xml_tree_prune_flagged_sub(r.x, <<>>, xpath_vec(r.x, xpath)),
                     YangSpec),
                 YangSpec))

\* kv_get once the file name is resolved.
kv_get_resolved(kh, fs, xpath, pairs, ub, file) ==
    IF file.retval < 0 THEN get_fail(NULL, file.err)
    ELSE IF kh.kh_yangspec = NULL THEN get_fail(NULL, "noyangspec")
    ELSE IF db_regexp(fs[file.filename], <<>>).rc < 0 THEN get_fail(NULL, "storage")
    ELSE kv_get_filter(
             kv_get_pairs(YangSpec, pairs, 1,
                          [retval |-> 0, err |-> "", crashed |-> FALSE,
                           x |-> Xml(<<"config">>, NULLSTR, NULLSTR, <<>>)],
                          ub),
             IF xpath = NULLSTR THEN <<"/">> ELSE xpath)

\* kv_get, pairs being the pairs of the store in the order db_regexp hands
\* them out and ub the outcome of the leaf-list case of get.
kv_get(kh, fs, db, xpath, pairs, ub) ==
    kv_get_resolved(kh, fs, xpath, pairs, ub, kv_db2file(kh, db))

\* The orders in which db_regexp can hand out the pairs of database db.
Enumerations(kh, fs, db) ==
    IF kv_db2file(kh, db).retval < 0 THEN {<<>>}
    ELSE Orders(db_regexp(fs[kv_db2file(kh, db).filename], <<>>).pairs)


-----------------------------------------------------------------------------
(* Database lifecycle: kv_copy, kv_exists, kv_delete, kv_create             *)

\* What a byte copy of a file onto itself leaves.  kv_copy hands the same
\* path over as source and as target without comparing the two names; what
\* then happens is up to clicon_file_copy: a copy that opens its target for
\* writing (truncating it) before it reads the source leaves the file empty,
\* a copy that reads the source before it writes leaves the file as it was.
\* Both return 0.
SelfCopyOutcomes == {"kept", "truncated"}

\* clicon_file_copy: fails when the source file is missing; otherwise the
\* target file becomes a copy of the source file, byte for byte.  When source
\* and target are one file, self is what the copy leaves of it.
clicon_file_copy(fs, src, target, self) ==
    IF ~fs[src].exists THEN [rc |-> -1, fs |-> fs]
    ELSE IF src = target
    THEN [rc |-> 0,
          fs |-> IF self = "truncated" THEN [fs EXCEPT ![target] = EmptyFile] ELSE fs]
    ELSE [rc |-> 0, fs |-> [fs EXCEPT ![target] = fs[src]]]

\* The result of a lifecycle call: the return value, the error and the files.
kv_result(retval, err, fs) == [retval |-> retval, err |-> err, fs |-> fs]

\* A kv_copy that hands the two file names to clicon_file_copy the other
\* way round.
kv_copy_resolved_swapped(fs, fromfile, tofile, self) ==
    IF fromfile.retval < 0 THEN kv_result(-1, fromfile.err, fs)
    ELSE IF tofile.retval < 0 THEN kv_result(-1, tofile.err, fs)
    ELSE IF clicon_file_copy(fs, tofile.filename, fromfile.filename, self).rc < 0
    THEN kv_result(-1, "copy", fs)
    ELSE kv_result(0, "", clicon_file_copy(fs, tofile.filename, fromfile.filename,
                                           self).fs)

\* kv_copy once both names are resolved.
kv_copy_resolved(fs, fromfile, tofile, self) ==
    IF fromfile.retval < 0 THEN kv_result(-1, fromfile.err, fs)
    ELSE IF tofile.retval < 0 THEN kv_result(-1, tofile.err, fs)
    ELSE IF clicon_file_copy(fs, fromfile.filename, tofile.filename, self).rc < 0
    THEN kv_result(-1, "copy", fs)
    ELSE kv_result(0, "", clicon_file_copy(fs, fromfile.filename, tofile.filename,
                                           self).fs)

\* kv_copy: both names are resolved, then the file is copied; self is what
\* clicon_file_copy leaves of a file copied onto itself.
kv_copy(kh, fs, from, to, self) ==
    kv_copy_resolved(fs, kv_db2file(kh, from), kv_db2file(kh, to), self)

\* kv_exists: 1 when lstat finds the file, 0 when not, -1 when the name is
\* not resolved.
kv_exists(kh, fs, db) ==
    IF kv_db2file(kh, db).retval < 0 THEN kv_result(-1, kv_db2file(kh, db).err, fs)
    ELSE kv_result(IF fs[kv_db2file(kh, db).filename].exists THEN 1 ELSE 0, "", fs)

\* kv_delete: db_delete on the resolved file.
kv_delete(kh, fs, db) ==
    IF kv_db2file(kh, db).retval < 0 THEN kv_result(-1, kv_db2file(kh, db).err, fs)
    ELSE IF db_delete(fs[kv_db2file(kh, db).filename]).rc < 0
    THEN kv_result(-1, "storage", fs)
    ELSE kv_result(0, "", [fs EXCEPT ![kv_db2file(kh, db).filename] = db_delete(@).f])

\* kv_create: db_init on the resolved file.
kv_create(kh, fs, db) ==
    IF kv_db2file(kh, db).retval < 0 THEN kv_result(-1, kv_db2file(kh, db).err, fs)
    ELSE IF db_init(fs[kv_db2file(kh, db).filename]).rc < 0
    THEN kv_result(-1, "storage", fs)
    ELSE kv_result(0, "", [fs EXCEPT ![kv_db2file(kh, db).filename] = db_init(@).f])

-----------------------------------------------------------------------------
(* The lock registry on its own: the state after two kv_connect calls, the  *)
(* three static ints at their initializers.                                 *)

NoCall == [call |-> "none"]

InitLock ==
    /\ handles = [h \in Handles |-> kv_connect_handle]
    /\ store = <<>>
    /\ running_locked = 0
    /\ candidate_locked = 0
    /\ startup_locked = 0
    /\ last = NoCall

NextLock ==
    \/ \E xh \in Handles, db \in DbArgs, pid \in Pids : kv_lock(xh, db, pid)
    \/ \E xh \in Handles, db \in DbArgs : kv_unlock(xh, db)
    \/ \E xh \in Handles, pid \in Pids : kv_unlock_all(xh, pid)
    \/ \E xh \in Handles, db \in DbArgs : IsLocked(xh, db)

SpecLock == InitLock /\ [][NextLock]_vars

-----------------------------------------------------------------------------
(* Input trees of kv_put                                                    *)

\* An element without attribute and children.
El(name, body) == Xml(name, body, NULLSTR, <<>>)

\* Key values: a plain one, one that extends it with a reserved character,
\* and one that is a regular-expression metacharacter.
KeyVals == { <<"a">>, <<"a", "/">>, <<".">> }

\* A list entry s with key n = v, leaf p = p when p is given, attribute a.
SNode(v, p, a) ==
    Xml(<<"s">>, NULLSTR, a,
        <<El(<<"n">>, v)>> \o (IF p = NULLSTR THEN <<>> ELSE <<El(<<"p">>, p)>>))

\* A list entry s with key n = a whose leaf p carries attribute ap.
SNodeP(a, ap) ==
    Xml(<<"s">>, NULLSTR, a,
        << El(<<"n">>, <<"a">>), Xml(<<"p">>, <<"1">>, ap, <<>>) >>)

\* A container c with leaf x, attribute a.
CNode(a) == Xml(<<"c">>, NULLSTR, a, << El(<<"x">>, <<"1">>) >>)

\* A container c with leaf x and container d with leaf y; attributes a on c,
\* b on d and e on y.
CDNode(a, b, e) ==
    Xml(<<"c">>, NULLSTR, a,
        << El(<<"x">>, <<"1">>),
           Xml(<<"d">>, NULLSTR, b, << Xml(<<"y">>, <<"1">>, e, <<>>) >>) >>)

\* A leaf-list entry l = v, attribute a.
LNode(v, a) == Xml(<<"l">>, v, a, <<>>)

\* A list entry m with keys j = a and k = a/, the key children in either order.
MNode(a, swapped) ==
    Xml(<<"m">>, NULLSTR, a,
        IF swapped
        THEN << El(<<"k">>, <<"a", "/">>), El(<<"j">>, <<"a">>) >>
        ELSE << El(<<"j">>, <<"a">>), El(<<"k">>, <<"a", "/">>) >>)

\* Elements the schema or the operation names do not allow: an element no
\* schema node describes, a list entry without its key, a list entry with
\* the first of its two keys only, a container with an
\* unknown child, an operation attribute that names no operation.
BadNodes ==
    { El(<<"z">>, NULLSTR),
      Xml(<<"s">>, NULLSTR, NULLSTR, << El(<<"p">>, <<"1">>) >>),
      Xml(<<"m">>, NULLSTR, NULLSTR, << El(<<"j">>, <<"a">>) >>),
      Xml(<<"c">>, NULLSTR, NULLSTR, << El(<<"x">>, <<"1">>), El(<<"z">>, NULLSTR) >>),
      Xml(<<"c">>, NULLSTR, <<"bogus">>, << El(<<"x">>, <<"1">>) >>) }

Attr(a) == IF a = "" THEN NULLSTR ELSE <<a>>

\* The top-level elements of the input trees.
TopNodes ==
    { SNode(v, p, Attr(a)) : v \in KeyVals, p \in {NULLSTR, <<"1">>},
                             a \in {"", "delete", "remove", "none", "create"} }
    \cup { SNode(<<"a">>, <<"2">>, NULLSTR) }
    \cup { SNodeP(Attr(a), Attr(ap)) : a \in {"", "none"},
                                       ap \in {"merge", "delete", "remove", "create"} }
    \cup { CNode(Attr(a)) : a \in {"", "delete", "remove", "none", "create"} }
    \cup { CDNode(Attr(a), Attr(b), Attr(e)) : a \in {"", "none", "create", "remove"},
                                              b \in {"", "merge", "delete"},
                                              e \in {"", "remove"} }
    \cup { LNode(v, Attr(a)) : v \in KeyVals, a \in {"", "delete", "create"} }
    \cup { MNode(Attr(a), sw) : a \in {"", "remove"}, sw \in BOOLEAN }
    \cup BadNodes

\* The elements that also appear next to another one under the root.
PairNodes ==
    { SNode(<<"a">>, <<"1">>, NULLSTR),
      SNode(<<"a", "/">>, NULLSTR, NULLSTR),
      SNode(<<"a">>, NULLSTR, <<"create">>),
      SNode(<<"a">>, NULLSTR, <<"delete">>),
      CDNode(<<"none">>, <<"merge">>, NULLSTR),
      LNode(<<"a">>, NULLSTR),
      LNode(<<".">>, NULLSTR),
      Xml(<<"s">>, NULLSTR, NULLSTR, << El(<<"p">>, <<"1">>) >>),
      El(<<"z">>, NULLSTR) }

Config(ch) == Xml(<<"config">>, NULLSTR, NULLSTR, ch)

\* The trees handed to kv_put: a root with one or two elements.
Trees ==
    { Config(<<t>>) : t \in TopNodes }
    \cup { Config(<<t1, t2>>) : t1 \in PairNodes, t2 \in PairNodes }

\* The trees used with arguments kv_put rejects.
FewTrees == { Config(<<SNode(<<"a">>, <<"1">>, NULLSTR)>>) }

-----------------------------------------------------------------------------
(* The calls of the write engine                                            *)

Dirs == {"d1"}

\* The files of the directories: those of the four databases and one more.
Files == { <<d, "/", db, "_db">> : d \in Dirs, db \in DbArgs }

\* The state change of a kv_put call with result r.
PutReturn(xh, db, op, xt, r) ==
    /\ store' = IF r.changed THEN [store EXCEPT ![r.filename] = r.f] ELSE store
    /\ last' = [call |-> "kv_put", xh |-> xh, db |-> db, op |-> op, xt |-> xt,
                retval |-> r.retval, err |-> r.err, filename |-> r.filename,
                resolved |-> r.changed,
                pre |-> IF r.changed THEN store[r.filename] ELSE NoFile,
                wiped |-> r.wiped, post |-> r.f, log |-> r.log]
    /\ UNCHANGED <<handles, lockvars>>

\* A kv_put that refuses a database that is locked.
Put_unlessLocked(xh, db, op, xt) ==
    /\ last = NoCall
    /\ PutReturn(xh, db, op, xt,
                 IF db \in LockNames /\ LockState[db] # 0
                 THEN [retval |-> -1, err |-> "locked", filename |-> <<>>,
                       changed |-> FALSE, f |-> NoFile, wiped |-> NoFile, log |-> <<>>]
                 ELSE kv_put(handles[xh], store, db, op, xt))

\* The kv_put call.
Put(xh, db, op, xt) ==
    /\ last = NoCall
    /\ PutReturn(xh, db, op, xt, kv_put(handles[xh], store, db, op, xt))

\* Handle h1 with its yangspec and dbdir options set.
Handle1 == [magic |-> TRUE, kh_dbdir |-> "d1", kh_yangspec |-> "yspec"]

CandidateFile == <<"d1", "/", "candidate", "_db">>

\* The files when only the candidate store was created, with content f.
FilesWith(f) == [fn \in Files |-> IF fn = CandidateFile THEN f ELSE NoFile]

RECURSIVE PriorStores(_)
\* The contents the candidate store can have after at most n kv_put calls
\* (of any operation and tree, failed ones included) since kv_create.
PriorStores(n) ==
    IF n = 0 THEN {EmptyFile}
    ELSE LET P == PriorStores(n - 1)
         IN  P \cup { kv_put(Handle1, FilesWith(f), "candidate", op, xt).f :
                          f \in P, op \in Operations, xt \in Trees }

\* The write engine on its own: handle h1 has its options set, handle h2 is as
\* kv_connect left it, the candidate store was created and written by earlier
\* kv_put calls, the other stores do not exist.
InitPut ==
    /\ handles = [h \in Handles |-> IF h = "h1" THEN Handle1 ELSE kv_connect_handle]
    /\ \E f \in PriorStores(PriorPuts) : store = FilesWith(f)
    /\ running_locked = 0
    /\ candidate_locked = 0
    /\ startup_locked = 0
    /\ last = NoCall

NextPut ==
    \/ \E op \in Operations, xt \in Trees : Put("h1", "candidate", op, xt)
    \/ \E xh \in Handles, db \in {"tmp", "nosuch"}, op \in {"OP_MERGE", "OP_REPLACE"},
          xt \in FewTrees : Put(xh, db, op, xt)

SpecPut == InitPut /\ [][NextPut]_vars

-----------------------------------------------------------------------------
(* The calls of the read engine                                             *)

\* The query paths handed to kv_get: none (NULL), the root, the elements of
\* one name below the root, a name nothing has.
Xpaths == { NULLSTR, <<"/">>, <<"/", "s">>, <<"/", "z">> }

\* The state change of a kv_get call with result r: the files and the locks
\* stay, the call and what it returned are recorded after the call before it.
GetReturn(xh, db, xpath, pairs, r) ==
    /\ last' = [call |-> "kv_get", xh |-> xh, db |-> db, xpath |-> xpath,
                pairs |-> pairs, retval |-> r.retval, err |-> r.err,
                crashed |-> r.crashed, xt |-> r.x, put |-> last]
    /\ UNCHANGED <<handles, store, lockvars>>

\* The kv_get call: the store hands out its pairs in one of the possible
\* orders, the leaf-list case of get has one of its outcomes.
Get(xh, db, xpath) ==
    /\ last.call # "kv_get"
    /\ \E pairs \in Enumerations(handles[xh], store, db), ub \in LeafListOutcomes :
           GetReturn(xh, db, xpath, pairs,
                     kv_get(handles[xh], store, db, xpath, pairs, ub))

\* The read engine after the write engine: handle h1 has its options set,
\* handle h2 is as kv_connect left it, the candidate store was created and
\* is empty, the other stores do not exist.
InitGet ==
    /\ handles = [h \in Handles |-> IF h = "h1" THEN Handle1 ELSE kv_connect_handle]
    /\ store = FilesWith(EmptyFile)
    /\ running_locked = 0
    /\ candidate_locked = 0
    /\ startup_locked = 0
    /\ last = NoCall

NextGet ==
    \/ \E op \in {"OP_MERGE", "OP_CREATE", "OP_REPLACE"}, xt \in Trees :
           Put("h1", "candidate", op, xt)
    \/ \E xpath \in Xpaths : Get("h1", "candidate", xpath)
    \/ \E xh \in Handles, db \in {"tmp", "nosuch"} : Get(xh, db, <<"/">>)

SpecGet == InitGet /\ [][NextGet]_vars


-----------------------------------------------------------------------------
(* The read engine on stores of any content                                 *)

\* How many pairs the store read holds at most.
MaxStored == 2

\* The pairs a store file can hold: keys put writes, and keys put never
\* writes (a list segment with too many or too few values or with none, at
\* the top and below a container, a
\* key without leading "/", a name the schema does not have, an entry of the
\* list without key statement).
RawPairs ==
    { << <<"/", "s", "=", "a">>, NULLSTR >>,
      << <<"/", "s", "=", "a", "/", "p">>, <<"1">> >>,
      << <<"/", "s", "=", "a", ",", "b">>, NULLSTR >>,
      << <<"/", "s", "=", "a", ",", "b", "/", "p">>, <<"1">> >>,
      << <<"/", "s">>, NULLSTR >>,
      << <<"/", "m", "=", "a", ",", "b">>, NULLSTR >>,
      << <<"/", "m", "=", "b", ",", "a", "/", "j">>, <<"b">> >>,
      << <<"/", "m", "=", "a">>, NULLSTR >>,
      << <<"/", "c", "/", "x">>, <<"1">> >>,
      << <<"/", "c", "/", "d", "/", "y">>, <<"1">> >>,
      << <<"/", "c", "/", "z">>, <<"1">> >>,
      << <<"/", "c", "/", "e", "=", "a">>, NULLSTR >>,
      << <<"/", "c", "/", "e", "=", "a", ",", "b", "/", "q">>, <<"1">> >>,
      << <<"/", "z">>, NULLSTR >>,
      << <<"s", "=", "a">>, NULLSTR >>,
      << <<"/", "u", "/", "v">>, <<"1">> >>,
      << <<"/", "l", "=", "a">>, <<"a">> >> }

\* The sets of at most n of the pairs S.
RECURSIVE SubsetsUpTo(_, _)
SubsetsUpTo(S, n) ==
    IF n = 0 THEN { {} }
    ELSE SubsetsUpTo(S, n - 1)
         \cup { T \cup {e} : T \in SubsetsUpTo(S, n - 1), e \in S }

\* The query paths of the reads: the root, elements below the root, elements
\* further down, a path that selects nothing.
DecodeXpaths ==
    Xpaths \cup { <<"/", "c">>, <<"/", "c", "/", "d">>, <<"/", "c", "/", "d", "/", "y">>,
                  <<"/", "c", "/", "x">>, <<"/", "s", "/", "p">> }

\* The candidate store holds any pairs; handle h1 has its options set.
InitDecode ==
    /\ handles = [h \in Handles |-> IF h = "h1" THEN Handle1 ELSE kv_connect_handle]
    /\ \E S \in SubsetsUpTo(RawPairs, MaxStored) :
           store = FilesWith([exists |-> TRUE, pairs |-> S])
    /\ running_locked = 0
    /\ candidate_locked = 0
    /\ startup_locked = 0
    /\ last = NoCall

NextDecode == \E xpath \in DecodeXpaths : Get("h1", "candidate", xpath)

SpecDecode == InitDecode /\ [][NextDecode]_vars

-----------------------------------------------------------------------------
(* The percent codec on its own and in the keys of list entries             *)

\* The length of the strings encoded and decoded.
MaxLen == 3

\* The length of the key values of the list entries written.
MaxKeyLen == 2

\* The characters of the values: a letter, the reserved characters, and the
\* hex digits of the code of "/".
CodecAlphabet == {"a", "/", "=", ",", "%", "2", "F"}

RECURSIVE StringsUpTo(_)
\* The strings of at most n characters.
StringsUpTo(n) ==
    IF n = 0 THEN { <<>> }
    ELSE StringsUpTo(n - 1)
         \cup { Append(v, ch) : v \in StringsUpTo(n - 1), ch \in CodecAlphabet }

CodecStrings == StringsUpTo(MaxLen)

KeyStrings == StringsUpTo(MaxKeyLen) \ {<<>>}

\* A list entry m with keys j = v and k = w.
MNodeOf(v, w) == Xml(<<"m">>, NULLSTR, NULLSTR, << El(<<"j">>, v), El(<<"k">>, w) >>)

\* A list entry m with keys j = v and k = w, the child k before the child j.
MNodeSwapped(v, w) ==
    Xml(<<"m">>, NULLSTR, NULLSTR, << El(<<"k">>, w), El(<<"j">>, v) >>)

\* The list entries written: any value that is not empty as the key of s and
\* as the first key of m, the key children of m in either order.
CodecTrees ==
    { Config(<<SNode(v, NULLSTR, NULLSTR)>>) : v \in KeyStrings }
    \cup { Config(<<MNodeOf(v, w)>>) : v \in KeyStrings,
                                       w \in { <<"a">>, <<",">>, <<"%", "2">> } }
    \cup { Config(<<MNodeSwapped(v, w)>>) : v \in KeyStrings,
                                            w \in { <<"a">>, <<",">>, <<"%", "2">> } }

\* uri_percent_encode of str.
Encode(str) ==
    /\ last = NoCall
    /\ last' = [call |-> "uri_percent_encode", str |-> str,
                enc |-> uri_percent_encode(str)]
    /\ UNCHANGED <<handles, store, lockvars>>

\* uri_percent_decode of what uri_percent_encode returned.
Decode ==
    /\ last.call = "uri_percent_encode"
    /\ last' = [call |-> "uri_percent_decode", str |-> last.enc,
                dec |-> uri_percent_decode(last.enc), encoded |-> last.str]
    /\ UNCHANGED <<handles, store, lockvars>>

NextCodec ==
    \/ \E str \in CodecStrings : Encode(str)
    \/ Decode
    \/ \E xt \in CodecTrees : Put("h1", "candidate", "OP_MERGE", xt)
    \/ last.call = "kv_put" /\ Get("h1", "candidate", <<"/">>)

\* The candidate store is empty, as in InitGet.
SpecCodec == InitGet /\ [][NextCodec]_vars

-----------------------------------------------------------------------------
(* The keys kv_put builds                                                   *)

\* The values of key fields and leaf-list entries: none (an element without
\* text), the empty text, the text "(null)", plain and reserved characters.
KeyValues ==
    { NULLSTR, <<>>, PrintfNull, <<"a">>, <<",">>, <<"a", ",", "a">>,
      <<"/">>, <<"=">>, <<"%">>, <<"%", "2", "C">> }

\* The values of the two keys of list m.
PairValues == { <<>>, <<"a">>, <<",">>, <<"a", ",", "a">> }

\* List entries, leaf-list entries and a container.
KeyNodes ==
    { SNode(v, NULLSTR, NULLSTR) : v \in KeyValues }
    \cup { LNode(v, NULLSTR) : v \in KeyValues }
    \cup { MNodeOf(v, w) : v \in PairValues, w \in PairValues }
    \cup { Xml(<<"s">>, NULLSTR, NULLSTR, << El(<<"n">>, <<"a">>), El(<<"p">>, <<"a">>) >>),
           Xml(<<"c">>, NULLSTR, NULLSTR, << El(<<"x">>, <<"a">>) >>) }

\* The trees whose keys are compared: two elements under the root.
KeyTrees == { Config(<<t1, t2>>) : t1 \in KeyNodes, t2 \in KeyNodes }

\* Whether the key of top-level element t is built from a body that is NULL.
HasNullKey(t) ==
    LET y == yang_find_datanode(YangSpec, xml_name(t))
    IN  \/ y.ys_keyword = "Y_LEAF_LIST" /\ xml_body(t) = NULLSTR
        \/ /\ y.ys_keyword = "Y_LIST"
           /\ \E j \in 1..Len(y.ys_cvec) :
                  /\ xml_find(t, y.ys_cvec[j]) # 0
                  /\ xml_body(t.ch[xml_find(t, y.ys_cvec[j])]) = NULLSTR
                  /\ \A k \in 1..(j - 1) : xml_find(t, y.ys_cvec[k]) # 0

\* The kv_put call that ends the process at the first top-level element
\* whose key is built from a NULL body: the elements before it are stored.
PutCrash(xh, db, op, xt) ==
    /\ last = NoCall
    /\ \E i \in 1..Len(xt.ch) :
           /\ HasNullKey(xt.ch[i])
           /\ \A j \in 1..(i - 1) : ~HasNullKey(xt.ch[j])
           /\ kv_put(handles[xh], store, db, op, Config(SubSeq(xt.ch, 1, i - 1))).retval = 0
           /\ PutReturn(xh, db, op, xt,
                        [kv_put(handles[xh], store, db, op,
                                Config(SubSeq(xt.ch, 1, i - 1)))
                            EXCEPT !.retval = -1, !.err = "crash"])

NextKeys ==
    \/ \E xt \in KeyTrees : Put("h1", "candidate", "OP_MERGE", xt)
    \/ \E xt \in KeyTrees : PutCrash("h1", "candidate", "OP_MERGE", xt)

\* The candidate store is empty, as in InitGet.
SpecKeys == InitGet /\ [][NextKeys]_vars

-----------------------------------------------------------------------------
(* The handles: kv_connect, kv_setopt, kv_getopt, kv_disconnect             *)

OptNames == {"yangspec", "dbdir", "nosuch"}

\* The values of an option: NULL, and the schema or the directory.
OptValues(optname) == IF optname = "yangspec" THEN {NULL, "yspec"} ELSE {NULL, "d1"}

\* The process did not end in the call before.
Alive == ~(last.call = "kv_disconnect" /\ last.crashed)

\* kv_connect hands out handle xh, not in use so far or freed before.
Connect(xh) ==
    /\ Alive
    /\ handles[xh] = FreedHandle
    /\ handles' = [handles EXCEPT ![xh] = kv_connect_handle]
    /\ last' = [call |-> "kv_connect", xh |-> xh]
    /\ UNCHANGED <<store, lockvars>>

Setopt(xh, optname, value) ==
    /\ Alive
    /\ handles[xh] # FreedHandle
    /\ handles' = [handles EXCEPT ![xh] = kv_setopt(handles[xh], optname, value).kh]
    /\ last' = [call |-> "kv_setopt", xh |-> xh, optname |-> optname, value |-> value,
                retval |-> kv_setopt(handles[xh], optname, value).retval]
    /\ UNCHANGED <<store, lockvars>>

Getopt(xh, optname) ==
    /\ Alive
    /\ handles[xh] # FreedHandle
    /\ last' = [call |-> "kv_getopt", xh |-> xh, optname |-> optname,
                value |-> kv_getopt(handles[xh], optname).value,
                retval |-> kv_getopt(handles[xh], optname).retval]
    /\ UNCHANGED <<handles, store, lockvars>>

\* kv_disconnect of a handle in use, or of one that was disconnected before.
Disconnect(xh) ==
    /\ Alive
    /\ \E ub \in DanglingOutcomes :
           /\ handles' = [handles EXCEPT ![xh] = kv_disconnect(handles[xh], ub).kh]
           /\ last' = [call |-> "kv_disconnect", xh |-> xh,
                       again |-> handles[xh] = FreedHandle,
                       retval |-> kv_disconnect(handles[xh], ub).retval,
                       crashed |-> kv_disconnect(handles[xh], ub).crashed]
    /\ UNCHANGED <<store, lockvars>>

\* After two kv_connect calls; the candidate store holds a pair and running
\* is locked by owner 1.
InitHandle ==
    /\ handles = [h \in Handles |-> kv_connect_handle]
    /\ store = FilesWith([exists |-> TRUE, pairs |-> { << <<"/", "c">>, NULLSTR >> }])
    /\ running_locked = 1
    /\ candidate_locked = 0
    /\ startup_locked = 0
    /\ last = NoCall

NextHandle ==
    \/ \E xh \in Handles : Connect(xh)
    \/ \E xh \in Handles, optname \in OptNames :
           \E value \in OptValues(optname) : Setopt(xh, optname, value)
    \/ \E xh \in Handles, optname \in OptNames : Getopt(xh, optname)
    \/ \E xh \in Handles : Disconnect(xh)

SpecHandle == InitHandle /\ [][NextHandle]_vars

-----------------------------------------------------------------------------
(* get on its own: keys applied to a tree one after the other                *)

\* How many keys are applied to the tree.
MaxApplied == 3

\* The pairs applied: keys that share segments, a key with two values, list
\* entries with one and two keys and below a container, a leaf-list entry.
DecodePairs ==
    { << <<"/", "c">>, NULLSTR >>,
      << <<"/", "c", "/", "x">>, <<"1">> >>,
      << <<"/", "c", "/", "x">>, <<"2">> >>,
      << <<"/", "c", "/", "d", "/", "y">>, <<"1">> >>,
      << <<"/", "c", "/", "e", "=", "a", "/", "q">>, <<"1">> >>,
      << <<"/", "s", "=", "a">>, NULLSTR >>,
      << <<"/", "s", "=", "a", "/", "p">>, <<"1">> >>,
      << <<"/", "s", "=", "a", "/", "n">>, <<"a">> >>,
      << <<"/", "m", "=", "a", ",", "b">>, NULLSTR >>,
      << <<"/", "l", "=", "a">>, <<"a">> >> }

\* get of key xk and value val on the tree the calls before left.
ApplyKey(xk, val) ==
    /\ last.n < MaxApplied
    /\ last.retval = 0
    /\ \E ub \in LeafListOutcomes :
           last' = [call |-> "get", xk |-> xk, val |-> val, pre |-> last.xt,
                    xt |-> get(YangSpec, xk, val, last.xt, ub).x,
                    retval |-> get(YangSpec, xk, val, last.xt, ub).retval,
                    crashed |-> get(YangSpec, xk, val, last.xt, ub).crashed,
                    before |-> last.applied,
                    applied |-> last.applied \cup { <<xk, val>> },
                    n |-> last.n + 1]
    /\ UNCHANGED <<handles, store, lockvars>>

\* The tree kv_get starts from: the root alone.
InitDecodePath ==
    /\ handles = [h \in Handles |-> IF h = "h1" THEN Handle1 ELSE kv_connect_handle]
    /\ store = FilesWith(EmptyFile)
    /\ running_locked = 0
    /\ candidate_locked = 0
    /\ startup_locked = 0
    /\ last = [call |-> "xml_new", xt |-> Config(<<>>), retval |-> 0, crashed |-> FALSE,
               applied |-> {}, n |-> 0]

NextDecodePath == \E e \in DecodePairs : ApplyKey(e[1], e[2])

SpecDecodePath == InitDecodePath /\ [][NextDecodePath]_vars

-----------------------------------------------------------------------------
(* The plugin api as a whole: sessions calling lock, unlock, put, get,      *)
(* copy, exists, delete and create in any order                             *)

\* The database names the sessions use with the stores.
ApiDbs == {"running", "candidate", "tmp", "nosuch"}

\* The trees the sessions put.
ApiTrees == { Config(<<CNode(NULLSTR)>>),
              Config(<<SNode(<<"a">>, NULLSTR, NULLSTR)>>) }

\* Handle h2 of the sessions: its yangspec is set, its dbdir is not.
Handle2 == [magic |-> TRUE, kh_dbdir |-> NULL, kh_yangspec |-> "yspec"]

\* The state change of a lifecycle call with result r.
StoreReturn(call, xh, db, to, r) ==
    /\ store' = r.fs
    /\ last' = [call |-> call, xh |-> xh, db |-> db, to |-> to,
                retval |-> r.retval, err |-> r.err, pre |-> store]
    /\ UNCHANGED <<handles, lockvars>>

\* The kv_copy call.
Copy(xh, from, to) ==
    /\ last = NoCall
    /\ \E self \in SelfCopyOutcomes :
           StoreReturn("kv_copy", xh, from, to,
                       kv_copy(handles[xh], store, from, to, self))

\* The kv_exists call.
Exists(xh, db) ==
    /\ last = NoCall
    /\ StoreReturn("kv_exists", xh, db, "", kv_exists(handles[xh], store, db))

\* The kv_delete call.
Delete(xh, db) ==
    /\ last = NoCall
    /\ StoreReturn("kv_delete", xh, db, "", kv_delete(handles[xh], store, db))

\* The kv_create call.
Create(xh, db) ==
    /\ last = NoCall
    /\ StoreReturn("kv_create", xh, db, "", kv_create(handles[xh], store, db))

\* The caller has taken the result of the last call; the next call can start.
Return ==
    /\ last # NoCall
    /\ last' = NoCall
    /\ UNCHANGED <<handles, store, lockvars>>

\* After two kv_connect calls and the kv_setopt calls of the two sessions: no
\* store file is there yet, no lock is held.
InitApi ==
    /\ handles = [h \in Handles |-> IF h = "h1" THEN Handle1 ELSE Handle2]
    /\ store = [fn \in Files |-> NoFile]
    /\ running_locked = 0
    /\ candidate_locked = 0
    /\ startup_locked = 0
    /\ last = NoCall

NextApi ==
    \/ \E db \in {"running", "candidate"}, pid \in Pids \ {0} :
           last = NoCall /\ kv_lock("h1", db, pid)
    \/ \E db \in {"running", "candidate"} : last = NoCall /\ kv_unlock("h2", db)
    \/ \E xh \in Handles, db \in ApiDbs, op \in {"OP_MERGE", "OP_REPLACE"},
          xt \in ApiTrees : Put(xh, db, op, xt)
    \/ \E xh \in Handles, db \in ApiDbs : last = NoCall /\ Get(xh, db, <<"/">>)
    \/ \E xh \in Handles, from \in ApiDbs, to \in ApiDbs : Copy(xh, from, to)
    \/ \E xh \in Handles, db \in ApiDbs : Exists(xh, db)
    \/ \E xh \in Handles, db \in ApiDbs : Delete(xh, db)
    \/ \E xh \in Handles, db \in ApiDbs : Create(xh, db)
    \/ Return

SpecApi == InitApi /\ [][NextApi]_vars

-----------------------------------------------------------------------------
(* Claims about the lock registry *)

\* C8: last-writer-wins, process-wide bookkeeping: after lock(db, o) on one of
\* the three lockable names, from any prior state and through any handle,
\* is_locked(db) through every handle returns o; after unlock(db) it returns 0.
C8_LastWriterWins ==
    /\ (last.call = "kv_lock" /\ last.retval = 0) =>
           \A xh \in Handles : kv_islocked(xh, last.db) = last.pid
    /\ (last.call = "kv_unlock" /\ last.retval = 0) =>
           \A xh \in Handles : kv_islocked(xh, last.db) = 0

\* C8 witness: a lock held by one owner was taken over by another owner, and
\* the registry now names the new owner.
C8_Witness ==
    /\ last.call = "kv_lock"
    /\ last.retval = 0
    /\ last.pid # 0
    /\ last.pre[last.db] # 0
    /\ last.pre[last.db] # last.pid
    /\ kv_islocked("h1", last.db) = last.pid
    /\ kv_islocked("h2", last.db) = last.pid

\* C9: unlock_all(owner) sets to 0 exactly the entries whose owner was owner,
\* leaves every other entry as it was, and returns 0.
C9_UnlockAllFrame ==
    last.call = "kv_unlock_all" =>
        /\ last.retval = 0
        /\ \A db \in LockNames :
               LockState[db] = IF last.pre[db] = last.pid THEN 0 ELSE last.pre[db]

\* C9 witness: unlock_all released two locks of one owner and kept a third
\* lock, held by another owner.
C9_Witness ==
    /\ last.call = "kv_unlock_all"
    /\ last.pid # 0
    /\ \E d1, d2, d3 \in LockNames :
           /\ d1 # d2
           /\ last.pre[d1] = last.pid /\ last.pre[d2] = last.pid
           /\ last.pre[d3] \notin {0, last.pid}
           /\ LockState[d1] = 0 /\ LockState[d2] = 0
           /\ LockState[d3] = last.pre[d3]

\* C10 as stated: a non-zero owner holds at most one of the three locks.
C10_AtMostOneLockPerOwner ==
    \A pid \in Pids \ {0} :
        Cardinality({db \in LockNames : LockState[db] = pid}) <= 1

\* C10 as amended: lock(db, o) changes the entry of db only, so an owner keeps
\* every lock it took before and may hold two or all three at the same time.
C10_LockKeepsOtherEntries ==
    (last.call = "kv_lock" /\ last.retval = 0) =>
        \A db \in LockNames \ {last.db} : LockState[db] = last.pre[db]

\* C10 witness: one owner holds all three locks at once.
C10_Witness ==
    /\ last.call = "kv_lock"
    /\ last.retval = 0
    /\ last.pid # 0
    /\ \A db \in LockNames : LockState[db] = last.pid

\* C11: kv_lock, kv_unlock and kv_islocked return -1 exactly when the name is
\* none of running, candidate, startup (so for tmp and for unknown names),
\* and a call that returns -1 leaves the three entries as they were.
C11_LockNames ==
    last.call \in {"kv_lock", "kv_unlock", "kv_islocked"} =>
        /\ last.retval = -1 <=> last.db \notin LockNames
        /\ last.retval = -1 => LockState = last.pre

\* C11 witness: a kv_lock on tmp failed while all three locks were held, and
\* they are still held by the same owners.
C11_Witness ==
    /\ last.call = "kv_lock"
    /\ last.db = "tmp"
    /\ last.pid # 0
    /\ last.retval = -1
    /\ \A db \in LockNames : last.pre[db] # 0 /\ LockState[db] = last.pre[db]
    /\ \E db \in LockNames : last.pre[db] # last.pid

-----------------------------------------------------------------------------
(* Claims about the write engine                                            *)

\* Whether string p is a prefix of string s.
IsPrefix(p, s) == Len(p) <= Len(s) /\ SubSeq(s, 1, Len(p)) = p

KeysOf(pairs) == {e[1] : e \in pairs}

\* The last call was a kv_put that got as far as the store: handle and
\* database name were accepted.
PutRan == last.call = "kv_put" /\ last.resolved

\* The trace lines of nodes put visited: a child without schema node is
\* rejected by the loop of its parent and never visited.
Visited(e) == e.status # "noyang"

\* Whether the key of a visited node could be built.
Keyed(e) == e.status \notin {"noyang", "badop", "nokey"}

\* C2: after a successful put(db, REPLACE, T2) the store holds exactly the
\* entries T2 produces (those the same call leaves in an empty store),
\* whatever it held before.
C2_ReplaceWipes ==
    (PutRan /\ last.op = "OP_REPLACE" /\ last.retval = 0) =>
        store[last.filename].pairs =
            kv_put(Handle1, FilesWith(EmptyFile), last.db, "OP_REPLACE", last.xt).f.pairs

\* C2 witness: a successful REPLACE on a store that held entries the new tree
\* does not produce; they are gone and the new entries are there.
C2_Witness ==
    /\ PutRan /\ last.op = "OP_REPLACE" /\ last.retval = 0
    /\ last.pre.pairs \ store[last.filename].pairs # {}
    /\ store[last.filename].pairs \ last.pre.pairs # {}

\* C3: a node visited with CREATE whose key is stored makes put fail with
\* "already exists"; a node visited with DELETE whose key is not stored makes
\* put fail with "does not exist"; a node visited with REMOVE or MERGE whose
\* key is not stored does not make put fail.
C3_ExistenceChecks ==
    (PutRan /\ last.wiped.exists) =>
        \A i \in 1..Len(last.log) :
            LET e == last.log[i]
                stored == e.xk \in KeysOf(e.pre)
            IN  Keyed(e) =>
                  /\ (e.op = "OP_CREATE" /\ stored) =>
                         (e.status = "exists" /\ last.retval = -1 /\ last.err = "exists")
                  /\ (e.op = "OP_DELETE" /\ ~stored) =>
                         (e.status = "notexists" /\ last.retval = -1
                          /\ last.err = "notexists")
                  /\ (e.op \in {"OP_REMOVE", "OP_MERGE"} /\ ~stored) => e.status = "ok"

\* C3 witness: one call in which a REMOVE of a key that is not stored went
\* through and a later CREATE of a stored key failed.
C3_Witness ==
    /\ PutRan /\ last.retval = -1 /\ last.err = "exists"
    /\ \E i, j \in 1..Len(last.log) :
           /\ i < j
           /\ last.log[i].op = "OP_REMOVE"
           /\ last.log[i].xk \notin KeysOf(last.log[i].pre)
           /\ last.log[i].status = "ok"
           /\ last.log[j].op = "OP_CREATE"
           /\ last.log[j].xk \in KeysOf(last.log[j].pre)
           /\ last.log[j].status = "exists"

\* C3 witness of the DELETE case: a DELETE of a key that is not stored failed.
C3_WitnessDelete ==
    /\ PutRan /\ last.retval = -1 /\ last.err = "notexists"
    /\ \E i \in 1..Len(last.log) :
           /\ last.log[i].op = "OP_DELETE"
           /\ last.log[i].xk \notin KeysOf(last.log[i].pre)

\* C4: REMOVE on a list entry or container with key K deletes the stored
\* entries whose key has K as a prefix and no other entry.
C4_RemoveDeletesPrefix ==
    PutRan =>
        \A i \in 1..Len(last.log) :
            LET e == last.log[i]
            IN  (e.op = "OP_REMOVE" /\ e.kw \in {"Y_LIST", "Y_CONTAINER"}
                 /\ e.status = "ok") =>
                    e.post = {p \in e.pre : ~IsPrefix(e.xk, p[1])}

\* C4, the half that holds: every stored entry whose key has K as a prefix is
\* deleted and no remaining entry is changed.
C4_RemoveDeletesAllOfPrefix ==
    PutRan =>
        \A i \in 1..Len(last.log) :
            LET e == last.log[i]
            IN  (e.op = "OP_REMOVE" /\ e.kw \in {"Y_LIST", "Y_CONTAINER"}
                 /\ e.status = "ok") =>
                    /\ e.post \subseteq e.pre
                    /\ \A p \in e.post : ~IsPrefix(e.xk, p[1])

\* Whether stored key k belongs to the subtree of the node with key xk: the
\* key itself or the key followed by "/" and more.
OwnSubtree(xk, k) == k = xk \/ IsPrefix(xk \o <<"/">>, k)

\* C21: DELETE or REMOVE on a list entry or container deletes stored entries
\* of the node's own subtree only; an entry of another list entry or of a
\* sibling whose key begins with the same characters stays.
C21_RemoveOnlySubtree ==
    PutRan =>
        \A i \in 1..Len(last.log) :
            LET e == last.log[i]
            IN  (e.op \in {"OP_DELETE", "OP_REMOVE"} /\ e.kw \in {"Y_LIST", "Y_CONTAINER"}
                 /\ e.status = "ok") =>
                    \A p \in e.pre : ~OwnSubtree(e.xk, p[1]) => p \in e.post

\* C21, the half that holds: the entries of the node's own subtree are
\* deleted, and an entry that stays is not changed.
C21_RemoveDeletesSubtree ==
    PutRan =>
        \A i \in 1..Len(last.log) :
            LET e == last.log[i]
            IN  (e.op \in {"OP_DELETE", "OP_REMOVE"} /\ e.kw \in {"Y_LIST", "Y_CONTAINER"}
                 /\ e.status = "ok") =>
                    /\ e.post \subseteq e.pre
                    /\ \A p \in e.post : ~OwnSubtree(e.xk, p[1])

\* The entry of list s with key a was removed from a store that held the
\* entry with key a/ (stored as /s=a%2F), and that entry went with it.
C21_WitnessPrefix ==
    /\ PutRan
    /\ \E i \in 1..Len(last.log) :
           /\ last.log[i].op \in {"OP_DELETE", "OP_REMOVE"}
           /\ last.log[i].xk = <<"/", "s", "=", "a">>
           /\ last.log[i].status = "ok"
           /\ <<"/", "s", "=", "a", "%", "2", "F">> \in KeysOf(last.log[i].pre)
           /\ <<"/", "s", "=", "a", "%", "2", "F">> \notin KeysOf(last.log[i].post)

RECURSIVE EffectiveOp(_, _, _)
\* The operation in force at the node at path in tree xt when op is in force
\* at xt's children: the nearest operation attribute on the way down.
EffectiveOp(xt, path, op) ==
    IF path = <<>> THEN op
    ELSE LET x == xt.ch[Head(path)]
             opx == IF x.op # NULLSTR THEN xml_operation(x.op) ELSE op
         IN  EffectiveOp(x, Tail(path), opx)

\* C5: the operation applied to a node is that of the nearest operation
\* attribute on the node or its ancestors, and the operation of the call when
\* there is none; attributes of siblings and of earlier subtrees do not count.
C5_AttributeScope ==
    PutRan =>
        \A i \in 1..Len(last.log) :
            Visited(last.log[i]) =>
                last.log[i].op = EffectiveOp(last.xt, last.log[i].path, last.op)

\* The node of tree xt at path.
RECURSIVE NodeAt(_, _)
NodeAt(xt, path) == IF path = <<>> THEN xt ELSE NodeAt(xt.ch[Head(path)], Tail(path))

\* C5 witness: a node with an attribute, a child that inherits it, a
\* grandchild branch that overrides it again, and a later sibling of the first
\* node that is back at the operation of the call: four operations in a row.
C5_Witness ==
    /\ PutRan /\ last.retval = 0
    /\ \E i, j, k, l \in 1..Len(last.log) :
           LET a == last.log[i]
               b == last.log[j]
               c == last.log[k]
               d == last.log[l]
           IN  /\ Len(a.path) = 1 /\ NodeAt(last.xt, a.path).op # NULLSTR
               /\ a.op # last.op
               /\ Len(b.path) = 2 /\ IsPrefix(a.path, b.path)
               /\ NodeAt(last.xt, b.path).op = NULLSTR /\ b.op = a.op
               /\ Len(c.path) = 3 /\ IsPrefix(a.path, c.path)
               /\ NodeAt(last.xt, c.path).op = NULLSTR
               /\ c.op # a.op /\ c.op # last.op
               /\ Len(d.path) = 1 /\ d.path[1] > a.path[1]
               /\ NodeAt(last.xt, d.path).op = NULLSTR /\ d.op = last.op

RECURSIVE NoAttributes(_)
\* Whether no node of xt carries an operation attribute.
NoAttributes(xt) ==
    xt.op = NULLSTR /\ \A i \in 1..Len(xt.ch) : NoAttributes(xt.ch[i])

\* C6: a node visited with NONE leaves the store as it was for its own key
\* and, when the call succeeds, each of its children is visited; a call with
\* NONE on a tree without operation attributes leaves the store unchanged.
C6_NoneWritesNothing ==
    PutRan =>
        /\ \A i \in 1..Len(last.log) :
               LET e == last.log[i]
               IN  (e.op = "OP_NONE" /\ Visited(e)) =>
                     /\ e.post = e.pre
                     /\ last.retval = 0 =>
                            \A c \in 1..Len(NodeAt(last.xt, e.path).ch) :
                                \E j \in 1..Len(last.log) :
                                    last.log[j].path = Append(e.path, c)
        /\ (last.op = "OP_NONE" /\ NoAttributes(last.xt)) =>
               store[last.filename] = last.pre

\* C6 witness: a node visited with NONE on a store that holds its key wrote
\* nothing, and a child of it with its own attribute changed the store.
C6_Witness ==
    /\ PutRan /\ last.retval = 0
    /\ \E i, j \in 1..Len(last.log) :
           /\ last.log[i].op = "OP_NONE"
           /\ last.log[i].xk \in KeysOf(last.log[i].pre)
           /\ last.log[i].post = last.log[i].pre
           /\ last.log[j].path \in {Append(last.log[i].path, c) : c \in 1..2}
           /\ last.log[j].post # last.log[j].pre

\* C22: a list entry or container visited with DELETE or REMOVE leaves no
\* stored key that has its key as a prefix, and none of its descendants is
\* visited, whatever operation attributes they carry; a leaf or leaf-list
\* entry visited with DELETE or REMOVE loses its own key and nothing else.
C22_RemoveSkipsChildren ==
    PutRan =>
        \A i \in 1..Len(last.log) :
            LET e == last.log[i]
            IN  (e.op \in {"OP_DELETE", "OP_REMOVE"} /\ e.status = "ok") =>
                    IF e.kw \in {"Y_LIST", "Y_CONTAINER"}
                    THEN /\ \A p \in e.post : ~IsPrefix(e.xk, p[1])
                         /\ \A j \in 1..Len(last.log) :
                                ~(Len(last.log[j].path) > Len(e.path)
                                  /\ PathPrefix(e.path, last.log[j].path))
                    ELSE e.post = {p \in e.pre : p[1] # e.xk}

\* C22 witness: container c was removed from a store that held /c/d/y while
\* its child d carries the attribute merge; nothing below c was visited.
C22_Witness ==
    /\ PutRan /\ last.retval = 0
    /\ \E i \in 1..Len(last.log) :
           /\ last.log[i].op = "OP_REMOVE"
           /\ last.log[i].kw = "Y_CONTAINER"
           /\ last.log[i].status = "ok"
           /\ <<"/", "c", "/", "d", "/", "y">> \in KeysOf(last.log[i].pre)
           /\ \E c \in 1..Len(NodeAt(last.xt, last.log[i].path).ch) :
                  NodeAt(last.xt, last.log[i].path).ch[c].op = <<"merge">>
           /\ \A p \in KeysOf(store[last.filename].pairs) : ~IsPrefix(<<"/", "c">>, p)

\* C22 witness for a leaf: leaf p of a list entry was removed and the entry
\* and its key stayed.
C22_WitnessLeaf ==
    /\ PutRan /\ last.retval = 0
    /\ \E i \in 1..Len(last.log) :
           /\ last.log[i].op \in {"OP_DELETE", "OP_REMOVE"}
           /\ last.log[i].kw = "Y_LEAF"
           /\ last.log[i].xk \in KeysOf(last.log[i].pre)
           /\ last.log[i].xk \notin KeysOf(last.log[i].post)
           /\ Cardinality(last.log[i].post) >= 2

\* What the store operations of one completed trace line do to the pairs.
EntryEffect(pairs, e) ==
    put_switch([exists |-> TRUE, pairs |-> pairs], e.xk, e.body, e.op, e.kw).f.pairs

RECURSIVE EffectOfLines(_, _, _)
\* The pairs after the store operations of the first n trace lines.
EffectOfLines(pairs, log, n) ==
    IF n = 0 THEN pairs
    ELSE EntryEffect(EffectOfLines(pairs, log, n - 1), log[n])

\* Pre-order of two places in a tree: p comes before q.
RECURSIVE PathBefore(_, _)
PathBefore(p, q) ==
    IF p = <<>> THEN q # <<>>
    ELSE IF q = <<>> THEN FALSE
    ELSE IF Head(p) # Head(q) THEN Head(p) < Head(q)
    ELSE PathBefore(Tail(p), Tail(q))

\* C25: a put that comes to a list entry without a child for one of the
\* keys of the list fails there with the missing-key error: the entry is the
\* last node visited, none of its children is visited, nothing is written
\* for it, and the store is as the nodes visited before left it.
C25_MissingKey ==
    PutRan =>
        \A i \in 1..Len(last.log) :
            LET e == last.log[i]
                x == NodeAt(last.xt, e.path)
            IN  (e.kw = "Y_LIST" /\ Visited(e) /\ e.status # "badop"
                 /\ \E j \in 1..Len(yang_find_datanode(YangSpec, x.name).ys_cvec) :
                        xml_find(x, yang_find_datanode(YangSpec, x.name).ys_cvec[j]) = 0) =>
                    /\ last.retval = -1
                    /\ last.err = "nokey"
                    /\ e.status = "nokey"
                    /\ i = Len(last.log)
                    /\ e.post = e.pre
                    /\ store[last.filename].pairs = e.pre
                    /\ e.pre = EffectOfLines(last.wiped.pairs, last.log, i - 1)

\* C25 witness: a MERGE of an entry of s followed by an entry of s without
\* its key child failed, and the pairs of the first entry are in the store.
C25_Witness ==
    /\ PutRan /\ last.retval = -1 /\ last.err = "nokey"
    /\ last.op = "OP_MERGE"
    /\ Len(last.log) >= 3
    /\ last.log[Len(last.log)].path = <<2>>
    /\ <<"/", "s", "=", "a">> \in KeysOf(store[last.filename].pairs)
    /\ <<"/", "s", "=", "a">> \notin KeysOf(last.pre.pairs)

\* C7: when put fails, the nodes were visited in pre-order, the failing node
\* is the last one visited, and the store is what the store operations of the
\* nodes before it made of the store the call found (of the empty store when
\* the operation of the call is REPLACE): nothing is undone, nothing later
\* is applied.
C7_NoRollback ==
    (PutRan /\ last.retval = -1) =>
        LET n == Len(last.log)
        IN  /\ n >= 1
            /\ last.log[n].status = last.err
            /\ \A i \in 1..(n - 1) :
                   /\ last.log[i].status = "ok"
                   /\ PathBefore(last.log[i].path, last.log[i + 1].path)
            /\ last.wiped =
                   (IF last.op = "OP_REPLACE" THEN EmptyFile ELSE last.pre)
            /\ last.wiped.exists =>
                   store[last.filename].pairs =
                       EffectOfLines(last.wiped.pairs, last.log, n - 1)

\* C7 witness: a REPLACE that failed at its second element: the old entries
\* are gone, the entries of the first element are stored.
C7_Witness ==
    /\ PutRan /\ last.retval = -1 /\ last.op = "OP_REPLACE"
    /\ Len(last.log) >= 2
    /\ last.pre.pairs # {}
    /\ store[last.filename].pairs # {}
    /\ last.pre.pairs \ store[last.filename].pairs # {}
    /\ store[last.filename].pairs \ last.pre.pairs # {}

-----------------------------------------------------------------------------
(* Claims about the read engine                                             *)

\* Whether two sibling elements with yang node y are the same instance: the
\* same container or leaf, the same list entry, the same leaf-list value.
SameInstance(a, b, y) ==
    /\ a.name = b.name
    /\ CASE y.ys_keyword = "Y_LIST" -> append_listkeys(a, y) = append_listkeys(b, y)
         [] y.ys_keyword = "Y_LEAF_LIST" -> a.body = b.body
         [] OTHER -> TRUE

RECURSIVE Conforms(_, _)
\* Whether the elements below x conform to the yang node y of x: each has a
\* yang node, a list entry has its key children, no instance is there twice,
\* and there is no operation attribute.
Conforms(x, y) ==
    /\ x.op = NULLSTR
    /\ \A i \in 1..Len(x.ch) :
           LET yc == yang_find_datanode(y, x.ch[i].name)
           IN  /\ yc # YNULL
               /\ yc.ys_keyword = "Y_LIST" => append_listkeys(x.ch[i], yc).retval = 0
               /\ Conforms(x.ch[i], yc)
               /\ \A j \in 1..Len(x.ch) : j # i => ~SameInstance(x.ch[i], x.ch[j], yc)

RECURSIVE SameTree(_, _)
\* Whether two trees have the same nodes and bodies, whatever the order of
\* the children.
SameTree(a, b) ==
    /\ a.name = b.name
    /\ a.body = b.body
    /\ Len(a.ch) = Len(b.ch)
    /\ \E p \in [1..Len(a.ch) -> 1..Len(b.ch)] :
           /\ \A i, j \in 1..Len(a.ch) : i # j => p[i] # p[j]
           /\ \A i \in 1..Len(a.ch) : SameTree(a.ch[i], b.ch[p[i]])

\* The last call was a get(candidate, "/") right after a put(candidate, MERGE,
\* T) of a conforming tree T on the empty store.
RoundTrip ==
    /\ last.call = "kv_get" /\ last.xh = "h1" /\ last.db = "candidate"
    /\ last.xpath = <<"/">>
    /\ last.put.call = "kv_put" /\ last.put.op = "OP_MERGE"
    /\ last.put.resolved /\ last.put.pre = EmptyFile
    /\ Conforms(last.put.xt, YangSpec)

\* C1: for a conforming tree T, get(db, "/") after put(db, MERGE, T) on the
\* empty store returns T: the same nodes and bodies, but for the defaults get
\* adds and the order of the children.
C1_RoundTrip ==
    RoundTrip =>
        /\ last.put.retval = 0
        /\ ~last.crashed
        /\ last.retval = 0
        /\ SameTree(last.xt, xml_default(last.put.xt, YangSpec))

\* C1 where it holds: unless get went through its leaf-list case and the
\* process ended there, get returns T.
C1_RoundTripUnlessCrashed ==
    (RoundTrip /\ ~last.crashed) =>
        /\ last.put.retval = 0
        /\ last.retval = 0
        /\ SameTree(last.xt, xml_default(last.put.xt, YangSpec))

\* A round trip of a tree with a list entry whose key value has a reserved
\* character, and with a default added by get.
C1_WitnessList ==
    /\ RoundTrip /\ last.retval = 0
    /\ \E i \in 1..Len(last.xt.ch) :
           /\ last.xt.ch[i].name = <<"s">>
           /\ \E k \in 1..Len(last.xt.ch[i].ch) :
                  last.xt.ch[i].ch[k].body = <<"a", "/">>

\* A round trip of a tree with nested containers, where get adds a default.
C1_WitnessDefault ==
    /\ RoundTrip /\ last.retval = 0
    /\ ~SameTree(last.xt, last.put.xt)

RECURSIVE SomeOrder(_)
\* The pairs S in one order.
SomeOrder(S) ==
    IF S = {} THEN <<>>
    ELSE LET e == CHOOSE e \in S : TRUE IN <<e>> \o SomeOrder(S \ {e})

\* One of the orders in which the store can hand out the pairs of the
\* database of the call.
OneOrder(kh, fs, db) ==
    IF kv_db2file(kh, db).retval < 0 THEN <<>>
    ELSE SomeOrder(db_regexp(fs[kv_db2file(kh, db).filename], <<>>).pairs)

\* C26: whatever the order in which the store hands out its pairs, a kv_get
\* that returns gives the same result and the same tree (the same nodes, list
\* entries, key children and bodies) as with any other order, and it leaves
\* the stores and the locks as they are.
C26_OrderIndependent ==
    [][ (last'.call = "kv_get" /\ last.call # "kv_get" /\ ~last'.crashed) =>
            /\ store' = store
            /\ LockState' = LockState
            /\ kv_get(handles[last'.xh], store, last'.db, last'.xpath,
                      OneOrder(handles[last'.xh], store, last'.db), "continue").retval
                   = last'.retval
            /\ last'.retval = 0 =>
                   SameTree(last'.xt,
                            kv_get(handles[last'.xh], store, last'.db, last'.xpath,
                                   OneOrder(handles[last'.xh], store, last'.db),
                                   "continue").x) ]_vars

\* C26 witness: a kv_get for which the store handed out /s=a/p and /s=a/n
\* before /s=a, and the result has the entry with n = a and p.
C26_Witness ==
    /\ last.call = "kv_get" /\ last.retval = 0
    /\ last.xpath = <<"/">>
    /\ Len(last.pairs) = 3
    /\ last.pairs[3][1] = <<"/", "s", "=", "a">>
    /\ last.pairs[1][1] = <<"/", "s", "=", "a", "/", "p">>
    /\ Len(last.xt.ch) = 1
    /\ Len(last.xt.ch[1].ch) = 2

-----------------------------------------------------------------------------
(* Claims about the decoding of stored keys                                 *)

RECURSIVE KeyFaultFrom(_, _, _)
\* What is wrong with the segments vec[i..] of a stored key below yang node
\* y, and in which segment: a name the schema does not have there, a list
\* without key statement, a list segment without values, a list segment with
\* another number of values than the list has keys; "leaflist" for a
\* leaf-list segment, "none" for a key that is as put writes it.
KeyFaultFrom(y, vec, i) ==
    IF i > Len(vec) THEN [fault |-> "none", seg |-> 0]
    ELSE LET yc == yang_find_datanode(y, SegName(vec[i]))
         IN  IF yc = YNULL THEN [fault |-> "noyang", seg |-> i]
             ELSE IF yc.ys_keyword = "Y_LEAF_LIST" THEN [fault |-> "leaflist", seg |-> i]
             ELSE IF yc.ys_keyword # "Y_LIST" THEN KeyFaultFrom(yc, vec, i + 1)
             ELSE IF yc.ys_cvec = <<>> THEN [fault |-> "nokey", seg |-> i]
             ELSE IF SegRest(vec[i]) = NULLSTR THEN [fault |-> "novalues", seg |-> i]
             ELSE IF Len(clicon_strsep(SegRest(vec[i]), ",")) # Len(yc.ys_cvec)
             THEN [fault |-> "keycount", seg |-> i]
             ELSE KeyFaultFrom(yc, vec, i + 1)

\* What is wrong with stored key xk.
KeyFault(xk) ==
    IF xk = <<>> \/ xk[1] # "/" THEN [fault |-> "invalidkey", seg |-> 0]
    ELSE KeyFaultFrom(YangSpec, Tail(clicon_strsep(xk, "/")), 1)

\* The decode failures that are not a wrong number of key values.
OtherFaults == {"invalidkey", "noyang", "nokey", "novalues"}

\* A kv_get that read the pairs of the store and did not end the process.
Decoded ==
    /\ last.call = "kv_get"
    /\ ~last.crashed
    /\ kv_db2file(handles[last.xh], last.db).retval = 0
    /\ store[kv_db2file(handles[last.xh], last.db).filename].exists
    /\ handles[last.xh].kh_yangspec # NULL

\* The pairs without the keys whose first segment is a list segment with the
\* wrong number of key values.
WithoutKeycount(pairs) ==
    SelectSeq(pairs, LAMBDA e : ~(KeyFault(e[1]).fault = "keycount" /\ KeyFault(e[1]).seg = 1))

\* C13: a stored key with a list segment that has another number of key
\* values than the list has keys does not make kv_get fail and leaves nothing
\* in the result (the result is that of the store without such keys, shown for
\* keys whose list segment is the first); kv_get fails exactly when a stored
\* key has one of the other faults: no leading "/", a name without schema
\* node, a list without key statement.
C13_DecodeFailures ==
    Decoded =>
        /\ last.retval = -1 <=>
               \E i \in 1..Len(last.pairs) : KeyFault(last.pairs[i][1]).fault \in OtherFaults
        /\ last.retval = 0 =>
               last.xt = kv_get(handles[last.xh], store, last.db, last.xpath,
                                WithoutKeycount(last.pairs), "continue").x

\* A kv_get that succeeded on a store with a key of the wrong number of key
\* values and a well-formed key, whose element is in the result.
C13_Witness ==
    /\ Decoded
    /\ last.retval = 0
    /\ last.xpath = <<"/">>
    /\ \E i \in 1..Len(last.pairs) : KeyFault(last.pairs[i][1]).fault = "keycount"
    /\ \E i \in 1..Len(last.pairs) : KeyFault(last.pairs[i][1]).fault = "none"
    /\ Len(last.xt.ch) = 1

\* A kv_get that failed on a key without leading "/".
C13_WitnessInvalid ==
    /\ Decoded
    /\ last.retval = -1
    /\ \E i \in 1..Len(last.pairs) : KeyFault(last.pairs[i][1]).fault = "invalidkey"

\* The pairs without the keys that have a list segment with the wrong
\* number of key values.
WithoutMismatch(pairs) == SelectSeq(pairs, LAMBDA e : KeyFault(e[1]).fault # "keycount")

\* C23: a stored key with a list segment that has another number of key
\* values than the list has keys leaves nothing in the tree, whatever comes
\* before that segment: the result of kv_get is that of the store without
\* such keys.
C23_SkipsWholeKey ==
    (Decoded /\ last.retval = 0) =>
        last.xt = kv_get(handles[last.xh], store, last.db, last.xpath,
                         WithoutMismatch(last.pairs), "continue").x

\* The store holds /c/e=a,b/q alone (list e has one key) and kv_get of the
\* root returned the container c made for the first segment.
C23_WitnessPrefixNode ==
    /\ Decoded /\ last.retval = 0
    /\ last.xpath = <<"/">>
    /\ Len(last.pairs) = 1
    /\ last.pairs[1][1] = <<"/", "c", "/", "e", "=", "a", ",", "b", "/", "q">>
    /\ Len(last.xt.ch) = 1
    /\ last.xt.ch[1].name = <<"c">>

-----------------------------------------------------------------------------
(* Claims about the canonical keys                                          *)

\* Whether element e has a child of each name in names whose body is the body
\* of the child of that name in element t.
SameKeyValues(e, t, names) ==
    \A j \in 1..Len(names) :
        /\ xml_find(e, names[j]) # 0
        /\ xml_find(t, names[j]) # 0
        /\ e.ch[xml_find(e, names[j])].body = t.ch[xml_find(t, names[j])].body

\* C14: what uri_percent_encode returns for a string v of the alphabet
\* (reserved characters included), uri_percent_decode turns into v again; and
\* a kv_get after the kv_put of a list entry into the empty store returns one
\* entry of that list with the key values of the entry written.
C14_CodecRoundTrip ==
    /\ last.call = "uri_percent_decode" => last.dec = last.encoded
    /\ last.call = "kv_get" /\ last.put.call = "kv_put" =>
           /\ last.put.retval = 0
           /\ last.retval = 0
           /\ Len(last.xt.ch) = 1
           /\ last.xt.ch[1].name = last.put.xt.ch[1].name
           /\ SameKeyValues(last.xt.ch[1], last.put.xt.ch[1],
                            yang_find_datanode(YangSpec, last.xt.ch[1].name).ys_cvec)

\* A string with the escape character and hex digits went through the codec.
C14_Witness ==
    /\ last.call = "uri_percent_decode"
    /\ last.encoded = <<"%", "2", "F">>
    /\ last.str # last.encoded

\* A list entry with two keys, both with reserved characters, was read back.
C14_WitnessList ==
    /\ last.call = "kv_get"
    /\ last.retval = 0
    /\ last.put.call = "kv_put"
    /\ last.put.xt = Config(<<MNodeOf(<<",", "/">>, <<"%", "2">>)>>)

RECURSIVE NodeIdFrom(_, _, _, _)
\* What tells the node at path apart, from the i-th step of the path on, x
\* and y being the element and the yang node reached: for every element on
\* the way its name and its key values (of a list entry the bodies of the
\* key children in declared order, of a leaf-list entry the body).
NodeIdFrom(x, y, path, i) ==
    IF i > Len(path) THEN <<>>
    ELSE LET xc == x.ch[path[i]]
             yc == yang_find_datanode(y, xml_name(xc))
         IN  << [name |-> xml_name(xc),
                 values |->
                     CASE yc.ys_keyword = "Y_LIST" ->
                              [j \in 1..Len(yc.ys_cvec) |->
                                  IF xml_find(xc, yc.ys_cvec[j]) = 0 THEN NULLSTR
                                  ELSE xml_body(xc.ch[xml_find(xc, yc.ys_cvec[j])])]
                       [] yc.ys_keyword = "Y_LEAF_LIST" -> << xml_body(xc) >>
                       [] OTHER -> <<>>] >>
             \o NodeIdFrom(xc, yc, path, i + 1)

NodeId(xt, path) == NodeIdFrom(xt, YangSpec, path, 1)

\* A kv_put that returned after building the keys of its nodes.
KeysBuilt == PutRan /\ last.retval = 0 /\ last.err # "crash"

\* C15: two nodes of the tree put that differ in schema path, in a key value
\* or in the leaf-list value get different keys, reserved characters and
\* empty values included.
C15_KeysInjective ==
    KeysBuilt =>
        \A i, j \in 1..Len(last.log) :
            NodeId(last.xt, last.log[i].path) # NodeId(last.xt, last.log[j].path)
                => last.log[i].xk # last.log[j].xk

\* C15 for nodes whose key values all have a text (the empty text included).
C15_KeysInjectiveWithText ==
    (KeysBuilt /\ \A i \in 1..Len(last.xt.ch) : ~HasNullKey(last.xt.ch[i])) =>
        \A i, j \in 1..Len(last.log) :
            NodeId(last.xt, last.log[i].path) # NodeId(last.xt, last.log[j].path)
                => last.log[i].xk # last.log[j].xk

\* Two entries of list m whose key values differ only in where the comma
\* is got different keys.
C15_WitnessWithText ==
    /\ KeysBuilt
    /\ last.xt = Config(<< MNodeOf(<<"a", ",", "a">>, <<"a">>),
                           MNodeOf(<<"a">>, <<"a", ",", "a">>) >>)
    /\ last.log[1].xk # last.log[4].xk

\* The body of the child of element e that has this name.
BodyOf(e, name) == xml_body(e.ch[xml_find(e, name)])

\* C16: the key of an entry of list m (key "j k") is "/m=" with the encoded
\* value of j, a comma and the encoded value of k, whether the child j or the
\* child k comes first in the entry put; and kv_get gives the first value of
\* the stored key to j and the second to k.
C16_KeyOrder ==
    /\ (PutRan /\ last.retval = 0 /\ last.xt.ch[1].name = <<"m">>) =>
           last.log[1].xk = <<"/", "m", "=">>
                            \o uri_percent_encode(BodyOf(last.xt.ch[1], <<"j">>))
                            \o <<",">>
                            \o uri_percent_encode(BodyOf(last.xt.ch[1], <<"k">>))
    /\ (last.call = "kv_get" /\ last.retval = 0 /\ last.put.call = "kv_put"
            /\ last.put.xt.ch[1].name = <<"m">>) =>
           LET valvec == clicon_strsep(SegRest(Tail(last.put.log[1].xk)), ",")
           IN  /\ Len(valvec) = 2
               /\ Len(last.xt.ch) = 1
               /\ BodyOf(last.xt.ch[1], <<"j">>) = uri_percent_decode(valvec[1])
               /\ BodyOf(last.xt.ch[1], <<"k">>) = uri_percent_decode(valvec[2])

\* An entry with k = a before j = a/ was put: its key is /m=a%2F,a.
C16_Witness ==
    /\ PutRan /\ last.retval = 0
    /\ last.xt = Config(<<MNodeSwapped(<<"a", "/">>, <<"a">>)>>)
    /\ last.log[1].xk = <<"/", "m", "=", "a", "%", "2", "F", ",", "a">>

\* That entry was read back with j = a/ and k = a.
C16_WitnessGet ==
    /\ last.call = "kv_get" /\ last.retval = 0
    /\ last.put.call = "kv_put"
    /\ last.put.xt = Config(<<MNodeSwapped(<<"a", "/">>, <<"a">>)>>)
    /\ BodyOf(last.xt.ch[1], <<"j">>) = <<"a", "/">>
    /\ BodyOf(last.xt.ch[1], <<"k">>) = <<"a">>

-----------------------------------------------------------------------------
(* Claims about the query path of kv_get                                    *)

RECURSIVE Places(_, _)
\* The places of the elements below x, x being at place path.
Places(x, path) ==
    UNION { {Append(path, i)} \cup Places(x.ch[i], Append(path, i)) : i \in 1..Len(x.ch) }

\* The names of the elements on the way to place p of tree xt.
NamesAt(xt, p) == [i \in 1..Len(p) |-> NodeAt(xt, SubSeq(p, 1, i)).name]

RECURSIVE YangAt(_, _, _)
\* The yang node the names from the i-th on lead to below y.
YangAt(y, names, i) ==
    IF i > Len(names) THEN y ELSE YangAt(yang_find_datanode(y, names[i]), names, i + 1)

\* The names of a query path; none for the path of the root.
QueryNames(xpath) ==
    IF xpath = NULLSTR \/ xpath = <<"/">> THEN <<>> ELSE Tail(clicon_strsep(xpath, "/"))

\* Whether the element at place p of the result xt is one the query names q
\* select, is below one, or is above one that is in the result.
SelectedOrKept(xt, p, q) ==
    \/ PathPrefix(q, NamesAt(xt, p))
    \/ /\ PathPrefix(NamesAt(xt, p), q)
       /\ \E p2 \in Places(xt, <<>>) : PathPrefix(p, p2) /\ NamesAt(xt, p2) = q

\* Whether the element at place p of xt is a leaf that has the default value
\* of its yang node.
DefaultLeaf(xt, p) ==
    /\ YangAt(YangSpec, NamesAt(xt, p), 1).ys_default # NULLSTR
    /\ NodeAt(xt, p).body = YangAt(YangSpec, NamesAt(xt, p), 1).ys_default

\* C17 as stated: a kv_get that succeeds returns the root, and every other
\* element of the result is selected by the query path, below a selected
\* element or above one.
C17_OnlySelected ==
    (Decoded /\ last.retval = 0) =>
        /\ last.xt.name = <<"config">>
        /\ \A p \in Places(last.xt, <<>>) :
               SelectedOrKept(last.xt, p, QueryNames(last.xpath))

\* C17 with the default leaves: a kv_get that succeeds returns the root, and
\* every other element of the result is selected by the query path, below a
\* selected element, above one, or a leaf with the default value of the
\* schema, added after the pruning.
C17_OnlySelectedOrDefault ==
    (Decoded /\ last.retval = 0) =>
        /\ last.xt.name = <<"config">>
        /\ \A p \in Places(last.xt, <<>>) :
               \/ SelectedOrKept(last.xt, p, QueryNames(last.xpath))
               \/ DefaultLeaf(last.xt, p)

\* A kv_get of /c/x on a store with /c/x and /s=a: the result is c with x.
C17_Witness ==
    /\ Decoded /\ last.retval = 0
    /\ last.xpath = <<"/", "c", "/", "x">>
    /\ \E i, j \in 1..Len(last.pairs) :
           /\ last.pairs[i][1] = <<"/", "c", "/", "x">>
           /\ last.pairs[j][1] = <<"/", "s", "=", "a">>
    /\ last.xt = Config(<< Xml(<<"c">>, NULLSTR, NULLSTR, << El(<<"x">>, <<"1">>) >>) >>)

\* A kv_get of a path that selects nothing on a store with pairs: the result
\* is the root alone.
C17_WitnessNoMatch ==
    /\ Decoded /\ last.retval = 0
    /\ last.xpath = <<"/", "z">>
    /\ Len(last.pairs) = 2
    /\ last.xt = Config(<<>>)

\* A kv_get of /c/d/y: d, kept as the parent of y, got the default leaf w.
C17_WitnessDefault ==
    /\ Decoded /\ last.retval = 0
    /\ last.xpath = <<"/", "c", "/", "d", "/", "y">>
    /\ \E p \in Places(last.xt, <<>>) :
           NamesAt(last.xt, p) = << <<"c">>, <<"d">>, <<"w">> >>

-----------------------------------------------------------------------------
(* Claims about the handles                                                 *)

\* C19: every kv_disconnect returns 0, the second one on a handle included,
\* which changes nothing; the other handles, the shared schema, the stores
\* and the locks stay as they are.
C19_Disconnect ==
    [][ last'.call = "kv_disconnect" =>
            /\ ~last'.crashed
            /\ last'.retval = 0
            /\ last'.again => handles' = handles
            /\ \A h \in Handles \ {last'.xh} : handles'[h] = handles[h]
            /\ store' = store
            /\ LockState' = LockState ]_vars

\* A kv_disconnect of a handle in use returns 0 and frees this handle alone;
\* no kv_disconnect changes another handle, a store or a lock.
C19_FirstDisconnect ==
    [][ last'.call = "kv_disconnect" =>
            /\ ~last'.again => (last'.retval = 0 /\ ~last'.crashed
                                /\ handles'[last'.xh] = FreedHandle)
            /\ \A h \in Handles \ {last'.xh} : handles'[h] = handles[h]
            /\ store' = store
            /\ LockState' = LockState ]_vars

\* Handle h1 was disconnected a second time while h2 has its options set.
C19_WitnessAgain ==
    /\ last.call = "kv_disconnect"
    /\ last.xh = "h1"
    /\ last.again
    /\ handles["h2"] = Handle1

-----------------------------------------------------------------------------
(* Claims about get as find-or-create                                       *)

\* What tells the children of one element apart: the name, for a list entry
\* also the bodies of its key children, for a leaf-list entry also its body.
ChildId(c, y) ==
    [name |-> c.name,
     values |->
         CASE yang_find_datanode(y, c.name).ys_keyword = "Y_LIST" ->
                  [j \in 1..Len(yang_find_datanode(y, c.name).ys_cvec) |->
                      IF xml_find(c, yang_find_datanode(y, c.name).ys_cvec[j]) = 0
                      THEN NULLSTR
                      ELSE BodyOf(c, yang_find_datanode(y, c.name).ys_cvec[j])]
           [] yang_find_datanode(y, c.name).ys_keyword = "Y_LEAF_LIST" -> << c.body >>
           [] OTHER -> <<>>]

RECURSIVE NoDuplicates(_, _)
\* No element of the tree x (yang node y) has two children that are the
\* same container, leaf, list entry or leaf-list entry.
NoDuplicates(x, y) ==
    /\ \A i, j \in 1..Len(x.ch) :
           i # j => ChildId(x.ch[i], y) # ChildId(x.ch[j], y)
    /\ \A i \in 1..Len(x.ch) : NoDuplicates(x.ch[i], yang_find_datanode(y, x.ch[i].name))

\* Whether the element at every place of tree a is at the same place of tree
\* b with the same name and, when it has a body in a, the same body.
Keeps(a, b) ==
    \A p \in Places(a, <<>>) :
        /\ p \in Places(b, <<>>)
        /\ NodeAt(b, p).name = NodeAt(a, p).name
        /\ NodeAt(a, p).body # NULLSTR => NodeAt(b, p).body = NodeAt(a, p).body

\* A get that returned 0.
Applied == last.call = "get" /\ last.retval = 0 /\ ~last.crashed

\* C24: get finds or makes the nodes of a key: the tree never has two
\* children that are the same container, leaf, list entry or leaf-list
\* entry, a body that is there is kept, and a key applied before leaves the
\* tree as it is.
C24_FindOrCreate ==
    Applied =>
        /\ NoDuplicates(last.xt, YangSpec)
        /\ Keeps(last.pre, last.xt)
        /\ <<last.xk, last.val>> \in last.before => last.xt = last.pre

\* C24 for keys without leaf-list segment.
C24_FindOrCreateUnlessLeafList ==
    (Applied /\ \A e \in last.applied : KeyFault(e[1]).fault = "none") =>
        /\ NoDuplicates(last.xt, YangSpec)
        /\ Keeps(last.pre, last.xt)
        /\ <<last.xk, last.val>> \in last.before => last.xt = last.pre

\* /c/x with value 2 was applied to a tree that has c with x = 1 and the
\* entry a of list s; the tree stayed as it was.
C24_WitnessShared ==
    /\ Applied
    /\ last.xk = <<"/", "c", "/", "x">>
    /\ last.val = <<"2">>
    /\ last.before = { << <<"/", "c", "/", "x">>, <<"1">> >>,
                       << <<"/", "s", "=", "a", "/", "p">>, <<"1">> >> }
    /\ last.xt = last.pre

\* /l=a was applied twice and the tree has two entries l = a.
C24_WitnessLeafListTwice ==
    /\ Applied
    /\ last.xk = <<"/", "l", "=", "a">>
    /\ <<last.xk, last.val>> \in last.before
    /\ Len(last.xt.ch) > Len(last.pre.ch)

-----------------------------------------------------------------------------
(* Claims about the plugin api                                              *)

\* The file <dir>/<db>_db.
FileOf(dir, db) == <<dir, "/", db, "_db">>

\* The return value of the store call recorded in c when made on the handles
\* and the files as they are, computed without a look at the lock registry.
LockFreeRetvals(c) ==
    CASE c.call = "kv_put" ->
             { kv_put(handles[c.xh], store, c.db, c.op, c.xt).retval }
      [] c.call = "kv_get" ->
             { kv_get(handles[c.xh], store, c.db, c.xpath, c.pairs, ub).retval :
                   ub \in LeafListOutcomes }
      [] c.call = "kv_copy" ->
             { kv_copy(handles[c.xh], store, c.db, c.to, self).retval :
                   self \in SelfCopyOutcomes }
      [] c.call = "kv_exists" -> { kv_exists(handles[c.xh], store, c.db).retval }
      [] c.call = "kv_delete" -> { kv_delete(handles[c.xh], store, c.db).retval }
      [] c.call = "kv_create" -> { kv_create(handles[c.xh], store, c.db).retval }

\* The calls that touch a store.
StoreCalls == {"kv_put", "kv_get", "kv_copy", "kv_exists", "kv_delete", "kv_create"}

\* C12: locks are advisory: whoever holds the lock of a database, a put, get,
\* copy, create or delete (or exists) on it returns what it returns without
\* any lock, and no such call changes an entry of the lock registry.
C12_LocksAdvisory ==
    [][ last'.call \in StoreCalls =>
            /\ LockState' = LockState
            /\ last'.retval \in LockFreeRetvals(last') ]_vars

\* C12 witness: a put changed the candidate store while candidate was locked,
\* and a lock is still held on it.
C12_Witness ==
    /\ last.call = "kv_put"
    /\ last.db = "candidate"
    /\ last.retval = 0
    /\ last.post # last.pre
    /\ candidate_locked # 0
    /\ running_locked \notin {0, candidate_locked}

\* Whether the names of the call recorded in c cannot be resolved.
Unresolvable(c) ==
    \/ handles[c.xh].kh_dbdir = NULL
    \/ c.db \notin DbNames
    \/ c.call = "kv_copy" /\ c.to \notin DbNames

\* The file the call recorded in c writes, if any.
TargetFile(c) ==
    FileOf(handles[c.xh].kh_dbdir, IF c.call = "kv_copy" THEN c.to ELSE c.db)

\* C18: a store call with a name that is none of running, candidate, startup,
\* tmp, or through a handle without dbdir, returns -1 and leaves every store
\* file as it was (also a put with OP_REPLACE); with a valid name the file is
\* <dbdir>/<name>_db, no other file changes, and different names are
\* different files.
C18_Resolver ==
    [][ last'.call \in StoreCalls =>
            /\ Unresolvable(last') => (last'.retval = -1 /\ store' = store)
            /\ ~Unresolvable(last') =>
                   /\ \A fn \in Files \ {TargetFile(last')} : store'[fn] = store[fn]
                   /\ last'.call = "kv_create" =>
                          (last'.retval = 0 /\ store'[TargetFile(last')].exists)
                   /\ last'.call = "kv_delete" =>
                          (last'.retval = 0 /\ ~store'[TargetFile(last')].exists)
                   /\ last'.call = "kv_exists" =>
                          (last'.retval = 1 <=> store[TargetFile(last')].exists)
                   /\ last'.call \in {"kv_exists", "kv_get"} => store' = store
            /\ \A d \in Dirs, db1 \in DbNames, db2 \in DbNames :
                   db1 # db2 => FileOf(d, db1) # FileOf(d, db2) ]_vars

\* C18 witness: a put with OP_REPLACE on an unknown name failed, and the
\* three stores written before still hold their entries.
C18_Witness ==
    /\ last.call = "kv_put"
    /\ last.xh = "h1"
    /\ last.db = "nosuch"
    /\ last.op = "OP_REPLACE"
    /\ last.retval = -1
    /\ \A db \in {"running", "candidate", "tmp"} : store[FileOf("d1", db)].pairs # {}

C20_WitnessSelf ==
    /\ last.call = "kv_copy" /\ last.retval = 0 /\ last.db = last.to
    /\ store[TargetFile(last)].pairs # {}

\* A copy of a store with entries onto itself returned 0 and the store is
\* empty.
C20_WitnessSelfEmptied ==
    /\ last.call = "kv_copy" /\ last.retval = 0 /\ last.db = last.to
    /\ last.pre[TargetFile(last)].pairs # {}
    /\ store[TargetFile(last)] = EmptyFile

\* A copy with a name that cannot be resolved failed.
C20_WitnessUnresolved ==
    /\ last.call = "kv_copy" /\ last.retval = -1
    /\ Unresolvable(last)

====
